---- MODULE Spec2Model ----
(***************************************************************************)
(* Conversation coach: the turn log assembled from streaming transcription *)
(* events, the annotations attached to turns, and the practice playback    *)
(* position tracker.                                                       *)
(*                                                                         *)
(* The repository holds two revisions of the StreamingConsole component:   *)
(*   "part_000" : src/unnamed/part_000                                     *)
(*   "console"  : src/components/demo/streaming-console/StreamingConsole.tsx *)
(* Definitions prefixed P0_ model the first, SC_ the second.  The variable *)
(* variant says which of the two is mounted in a behaviour.                *)
(*                                                                         *)
(* Text is a sequence of one-character strings, so that concatenation,     *)
(* join and trim are computed as the code computes them.                   *)
(***************************************************************************)
EXTENDS Integers, Sequences, FiniteSets, TLC

\* ---------------------------------------------------------------- bounds
MaxTurns == 3
MaxEvents == 3
MaxTextLen == 6

\* ------------------------------------------------------------ text values
Hel == <<"H", "e", "l">>
lo == <<"l", "o">>
Hello == <<"H", "e", "l", "l", "o">>
Blank == <<" ">>
Empty == <<>>

\* fragments a transcription event can carry
Frags == {Empty, Blank, Hel, lo}

\* JS undefined for annotation fields; an optional value of another type is
\* None (absent) or Some(x)
Undefined == "undefined"
None == <<>>
Some(x) == <<x>>

\* String.prototype.trim() is empty  (falsy result of t.text.trim())
IsBlank(s) == \A i \in 1..Len(s) : s[i] = " "

\* modelTurn?.parts of a content event: absent, or a list of parts whose
\* text is absent or present (possibly empty)
PartLists ==
    {None, Some(<<None, Some(Empty)>>), Some(<<Some(Hel), Some(lo)>>)}

\* groundingMetadata?.groundingChunks: absent, an empty array, or chunks
GroundingInputs == {None, Some(<<>>), Some(<<"g1">>)}

\* Boolean(p.text): an absent or empty text is falsy
Truthy(t) == t # None /\ t[1] # Empty

RECURSIVE JoinSpace(_)
\* Array.prototype.join(' ') over the texts that passed the filter
JoinSpace(ps) ==
    IF ps = <<>> THEN Empty
    ELSE IF Len(ps) = 1 THEN ps[1][1]
    ELSE ps[1][1] \o <<" ">> \o JoinSpace(Tail(ps))

\* parts?.map(p => p.text).filter(Boolean).join(' ') ?? ''
ContentText(parts) ==
    IF parts = None THEN Empty
    ELSE JoinSpace(SelectSeq(parts[1], Truthy))

\* -------------------------------------------------------------- the store
VARIABLES
    variant,          \* which revision of the component is mounted
    turns,            \* useLogStore.turns
    nextId,           \* next fresh turn id handed out by addTurn
    events,           \* history: the client events delivered so far
    fetchingFeedback, \* fetchingFeedbackRef: ids with a feedback request in flight
    feedbackInFlight, \* getPronunciationFeedback calls suspended at their await, per turn id
    playingTurnId,    \* useState playingTurnId (0 is null)
    ttsPc,            \* where handlePlayTTS is suspended
    ttsTurn,          \* the turn object captured by the running handlePlayTTS
    plays             \* history: accepted handlePlayTTS calls so far

turnVars ==
    <<variant, turns, nextId, events, fetchingFeedback, feedbackInFlight,
      playingTurnId, ttsPc, ttsTurn, plays>>

Last(ts) == ts[Len(ts)]

\* shallow merge  { ...turn, ...update }
Merge(t, upd) == [k \in DOMAIN t |-> IF k \in DOMAIN upd THEN upd[k] ELSE t[k]]

\* useLogStore.addTurn: append a turn under a fresh id
addTurn(ts, id, t) ==
    Append(ts, [id |-> id, role |-> t.role, text |-> t.text,
                isFinal |-> t.isFinal, groundingChunks |-> t.groundingChunks,
                pronunciationFeedback |-> Undefined,
                grammarFeedback |-> Undefined, ipa |-> Undefined])

\* useLogStore.updateLastTurn: merge the update into the last turn
updateLastTurn(ts, upd) ==
    IF ts = <<>> THEN ts
    ELSE [ts EXCEPT ![Len(ts)] = Merge(ts[Len(ts)], upd)]

\* useLogStore.updateTurnById: merge the update into the turn with that id
updateTurnById(ts, id, upd) ==
    [i \in 1..Len(ts) |-> IF ts[i].id = id THEN Merge(ts[i], upd) ELSE ts[i]]

\* ------------------------------------------------- transcription handlers
\* P0_handleInputTranscription with the fragment put in front of the text
P0_handleInputTranscription_Prepend(ts, id, text, isFinal) ==
    IF ts # <<>> /\ Last(ts).role = "user" /\ ~Last(ts).isFinal
    THEN updateLastTurn(ts, [text |-> text \o Last(ts).text, isFinal |-> isFinal])
    ELSE addTurn(ts, id, [role |-> "user", text |-> text, isFinal |-> isFinal,
                          groundingChunks |-> None])

\* part_000: client.on('inputTranscription')
P0_handleInputTranscription(ts, id, text, isFinal) ==
    IF ts # <<>> /\ Last(ts).role = "user" /\ ~Last(ts).isFinal
    THEN updateLastTurn(ts, [text |-> Last(ts).text \o text, isFinal |-> isFinal])
    ELSE addTurn(ts, id, [role |-> "user", text |-> text, isFinal |-> isFinal,
                          groundingChunks |-> None])

\* P0_handleOutputTranscription merging into the last agent turn without
\* the test that it is non-final
P0_handleOutputTranscription_NoFinalTest(ts, id, text, isFinal) ==
    IF ts # <<>> /\ Last(ts).role = "agent"
    THEN updateLastTurn(ts, [text |-> Last(ts).text \o text, isFinal |-> isFinal])
    ELSE LET fin == IF ts # <<>> /\ Last(ts).role = "user" /\ ~Last(ts).isFinal
                    THEN updateTurnById(ts, Last(ts).id, [isFinal |-> TRUE])
                    ELSE ts
         IN addTurn(fin, id, [role |-> "agent", text |-> text,
                              isFinal |-> isFinal, groundingChunks |-> None])

\* part_000: client.on('outputTranscription')
P0_handleOutputTranscription(ts, id, text, isFinal) ==
    IF ts # <<>> /\ Last(ts).role = "agent" /\ ~Last(ts).isFinal
    THEN updateLastTurn(ts, [text |-> Last(ts).text \o text, isFinal |-> isFinal])
    ELSE LET fin == IF ts # <<>> /\ Last(ts).role = "user" /\ ~Last(ts).isFinal
                    THEN updateTurnById(ts, Last(ts).id, [isFinal |-> TRUE])
                    ELSE ts
         IN addTurn(fin, id, [role |-> "agent", text |-> text,
                              isFinal |-> isFinal, groundingChunks |-> None])

\* P0_handleContent appending to the last agent turn without the test that
\* it is non-final
P0_handleContent_NoFinalTest(ts, id, parts, groundingChunks) ==
    LET text == ContentText(parts) IN
    IF text = Empty /\ groundingChunks = None THEN ts
    ELSE IF ts # <<>> /\ Last(ts).role = "agent"
    THEN updateLastTurn(ts, [text |-> Last(ts).text \o text])
    ELSE addTurn(ts, id, [role |-> "agent", text |-> text, isFinal |-> FALSE,
                          groundingChunks |-> groundingChunks])

\* P0_handleContent without the early return
P0_handleContent_NoEarlyReturn(ts, id, parts, groundingChunks) ==
    LET text == ContentText(parts) IN
    IF ts # <<>> /\ Last(ts).role = "agent" /\ ~Last(ts).isFinal
    THEN updateLastTurn(ts, [text |-> Last(ts).text \o text])
    ELSE LET fin == IF ts # <<>> /\ Last(ts).role = "user" /\ ~Last(ts).isFinal
                    THEN updateTurnById(ts, Last(ts).id, [isFinal |-> TRUE])
                    ELSE ts
         IN addTurn(fin, id, [role |-> "agent", text |-> text,
                              isFinal |-> FALSE,
                              groundingChunks |-> groundingChunks])

\* part_000: client.on('content')
P0_handleContent(ts, id, parts, groundingChunks) ==
    LET text == ContentText(parts) IN
    IF text = Empty /\ groundingChunks = None THEN ts
    ELSE IF ts # <<>> /\ Last(ts).role = "agent" /\ ~Last(ts).isFinal
    THEN updateLastTurn(ts,
            IF groundingChunks # None
            THEN [text |-> Last(ts).text \o text,
                  groundingChunks |->
                      Some((IF Last(ts).groundingChunks = None THEN <<>>
                            ELSE Last(ts).groundingChunks[1])
                           \o groundingChunks[1])]
            ELSE [text |-> Last(ts).text \o text])
    ELSE LET fin == IF ts # <<>> /\ Last(ts).role = "user" /\ ~Last(ts).isFinal
                    THEN updateTurnById(ts, Last(ts).id, [isFinal |-> TRUE])
                    ELSE ts
         IN addTurn(fin, id, [role |-> "agent", text |-> text,
                              isFinal |-> FALSE,
                              groundingChunks |-> groundingChunks])

\* P0_handleTurnComplete finalizing an open agent turn only
P0_handleTurnComplete_AgentOnly(ts) ==
    IF ts # <<>> /\ ~Last(ts).isFinal /\ Last(ts).role = "agent"
    THEN updateTurnById(ts, Last(ts).id, [isFinal |-> TRUE])
    ELSE ts

\* part_000: client.on('turncomplete')
P0_handleTurnComplete(ts) ==
    IF ts # <<>> /\ ~Last(ts).isFinal
    THEN updateTurnById(ts, Last(ts).id, [isFinal |-> TRUE])
    ELSE ts

\* SC_handleInputTranscription updating the text only
SC_handleInputTranscription_KeepsFlag(ts, id, text, isFinal) ==
    IF ts # <<>> /\ Last(ts).role = "user" /\ ~Last(ts).isFinal
    THEN updateLastTurn(ts, [text |-> Last(ts).text \o text])
    ELSE addTurn(ts, id, [role |-> "user", text |-> text, isFinal |-> isFinal,
                          groundingChunks |-> None])

\* StreamingConsole.tsx: client.on('inputTranscription')
SC_handleInputTranscription(ts, id, text, isFinal) ==
    IF ts # <<>> /\ Last(ts).role = "user" /\ ~Last(ts).isFinal
    THEN updateLastTurn(ts, [text |-> Last(ts).text \o text, isFinal |-> isFinal])
    ELSE addTurn(ts, id, [role |-> "user", text |-> text, isFinal |-> isFinal,
                          groundingChunks |-> None])

\* StreamingConsole.tsx: client.on('outputTranscription')
SC_handleOutputTranscription(ts, id, text, isFinal) ==
    IF ts # <<>> /\ Last(ts).role = "agent" /\ ~Last(ts).isFinal
    THEN updateLastTurn(ts, [text |-> Last(ts).text \o text, isFinal |-> isFinal])
    ELSE addTurn(ts, id, [role |-> "agent", text |-> text, isFinal |-> isFinal,
                          groundingChunks |-> None])

\* --------------------------------------------- pronunciation feedback
\* NeedsFeedback looking at the last turn of the log only
NeedsFeedback_LastTurnOnly(ts) ==
    {i \in 1..Len(ts) :
        /\ i = Len(ts)
        /\ ts[i].role = "user"
        /\ ts[i].isFinal
        /\ ~IsBlank(ts[i].text)
        /\ ts[i].pronunciationFeedback = Undefined}

\* NeedsFeedback without the test of isFinal
NeedsFeedback_NoFinalTest(ts) ==
    {i \in 1..Len(ts) :
        /\ ts[i].role = "user"
        /\ ~IsBlank(ts[i].text)
        /\ ts[i].pronunciationFeedback = Undefined}

\* indices of the turns the feedback effect's find() accepts
NeedsFeedback(ts) ==
    {i \in 1..Len(ts) :
        /\ ts[i].role = "user"
        /\ ts[i].isFinal
        /\ ~IsBlank(ts[i].text)
        /\ ts[i].pronunciationFeedback = Undefined}

Max(S) == CHOOSE x \in S : \A y \in S : y <= x

\* the effect without the test of fetchingFeedbackRef and without the
\* placeholder: every run requests feedback for the turn found
P0_feedbackEffect_NoGuard(ts, fetching) ==
    IF NeedsFeedback(ts) = {}
    THEN [turns |-> ts, fetching |-> fetching, issued |-> <<>>]
    ELSE [turns |-> ts,
          fetching |-> fetching \cup {ts[Max(NeedsFeedback(ts))].id},
          issued |-> <<ts[Max(NeedsFeedback(ts))].id>>]

RECURSIVE P0_feedbackEffect(_, _)
\* part_000: useEffect([turns, ai]) with getPronunciationFeedback up to its
\* await.  The effect runs again after every change of turns, so it is
\* iterated until it leaves turns as they are.  The state is
\* [turns, fetching]; issued lists the ids a request has been issued for.
P0_feedbackEffect(ts, fetching) ==
    IF NeedsFeedback(ts) = {}
    THEN [turns |-> ts, fetching |-> fetching, issued |-> <<>>]
    ELSE LET id == ts[Max(NeedsFeedback(ts))].id IN
         IF id \in fetching
         THEN [turns |-> ts, fetching |-> fetching, issued |-> <<>>]
         ELSE LET r == P0_feedbackEffect(
                           updateTurnById(ts, id,
                               [pronunciationFeedback |-> "analyzing"]),
                           fetching \cup {id})
              IN [r EXCEPT !.issued = <<id>> \o @]

\* the effects that follow a store update, per revision
AfterRender(ts) ==
    IF variant = "part_000"
    THEN P0_feedbackEffect(ts, fetchingFeedback)
    ELSE [turns |-> ts, fetching |-> fetchingFeedback, issued |-> <<>>]

\* the calls in flight, with one more for every id of ids
Issue(inFlight, ids) ==
    IF ids = <<>> THEN inFlight
    ELSE [id \in DOMAIN inFlight |->
             inFlight[id] + Cardinality({k \in 1..Len(ids) : ids[k] = id})]

WithinBounds(ts) ==
    /\ Len(ts) <= MaxTurns
    /\ \A i \in 1..Len(ts) : Len(ts[i].text) <= MaxTextLen

\* a client event ev is dispatched and its handler leaves the store at ts
Deliver(ev, ts) ==
    /\ Len(events) < MaxEvents
    /\ WithinBounds(ts)
    /\ events' = Append(events, ev)
    /\ nextId' = IF Len(ts) > Len(turns) THEN nextId + 1 ELSE nextId
    /\ LET r == AfterRender(ts)
       IN /\ turns' = r.turns
          /\ fetchingFeedback' = r.fetching
          /\ feedbackInFlight' = Issue(feedbackInFlight, r.issued)
    /\ UNCHANGED <<variant, playingTurnId, ttsPc, ttsTurn, plays>>

Event(kind, text, isFinal, grounding) ==
    [kind |-> kind, text |-> text, isFinal |-> isFinal, grounding |-> grounding]

InputTranscriptionOf(F) ==
    \E text \in F, isFinal \in BOOLEAN :
        Deliver(Event("inputTranscription", text, isFinal, None),
                IF variant = "part_000"
                THEN P0_handleInputTranscription(turns, nextId, text, isFinal)
                ELSE SC_handleInputTranscription(turns, nextId, text, isFinal))

OutputTranscriptionOf(F) ==
    \E text \in F, isFinal \in BOOLEAN :
        Deliver(Event("outputTranscription", text, isFinal, None),
                IF variant = "part_000"
                THEN P0_handleOutputTranscription(turns, nextId, text, isFinal)
                ELSE SC_handleOutputTranscription(turns, nextId, text, isFinal))

\* only part_000 subscribes to 'content' and 'turncomplete'
ContentOf(P, G) ==
    /\ variant = "part_000"
    /\ \E parts \in P, g \in G :
        Deliver(Event("content", ContentText(parts), FALSE, g),
                P0_handleContent(turns, nextId, parts, g))

TurnComplete ==
    /\ variant = "part_000"
    /\ Deliver(Event("turncomplete", Empty, TRUE, None),
               P0_handleTurnComplete(turns))

InputTranscription == InputTranscriptionOf(Frags)
OutputTranscription == OutputTranscriptionOf(Frags)
Content == ContentOf(PartLists, GroundingInputs)

\* part_000: getPronunciationFeedback after its await: the response parsed
\* (ok) or the request / JSON.parse thrown, then the finally block
P0_feedbackResponse(ts, id, ok) ==
    updateTurnById(ts, id,
        [pronunciationFeedback |-> IF ok THEN "feedback" ELSE Undefined])

FeedbackResponse ==
    /\ variant = "part_000"
    /\ \E id \in DOMAIN feedbackInFlight, ok \in BOOLEAN :
        /\ feedbackInFlight[id] > 0
        /\ LET r == P0_feedbackEffect(P0_feedbackResponse(turns, id, ok),
                                      fetchingFeedback \ {id})
           IN /\ turns' = r.turns
              /\ fetchingFeedback' = r.fetching
              /\ feedbackInFlight' =
                     Issue([feedbackInFlight EXCEPT ![id] = @ - 1], r.issued)
    /\ UNCHANGED <<variant, nextId, events, playingTurnId, ttsPc, ttsTurn, plays>>

\* ------------------------------------------------------ handlePlayTTS
MaxPlays == 1

NoTurn ==
    [id |-> 0, role |-> "system", text |-> Empty, isFinal |-> FALSE,
     groundingChunks |-> None, pronunciationFeedback |-> Undefined,
     grammarFeedback |-> Undefined, ipa |-> Undefined]

\* the play button is rendered for this turn
HasPlayButton(t) ==
    t.role \in {"agent", "user"} /\ t.isFinal /\ ~IsBlank(t.text)

\* part_000 handlePlayTTS, the grammar block up to its await: [turns, pc]
P0_playGrammarStep(ts, t) ==
    IF t.role = "user" /\ t.grammarFeedback = Undefined /\ ~IsBlank(t.text)
    THEN [turns |-> updateTurnById(ts, t.id, [grammarFeedback |-> "analyzing"]),
          pc |-> "grammar"]
    ELSE [turns |-> ts, pc |-> "tts"]

\* part_000 handlePlayTTS, the outer catch block
P0_playCatch(ts, t) ==
    updateTurnById(ts, t.id, [ipa |-> Undefined, grammarFeedback |-> Undefined])

\* the store is left at ts by a step of handlePlayTTS
PlayStore(ts) ==
    /\ LET r == AfterRender(ts)
       IN /\ turns' = r.turns
          /\ fetchingFeedback' = r.fetching
          /\ feedbackInFlight' = Issue(feedbackInFlight, r.issued)
    /\ UNCHANGED <<variant, nextId, events>>

\* a handlePlayTTS that goes on whatever playingTurnId holds
P0_playGuard_Open(playing) == TRUE

\* part_000 handlePlayTTS, its first line: the call goes on past the early
\* return (`ai` is set at mount and stays set)
P0_playGuard(playing) == playing = 0

\* part_000: handlePlayTTS called with turn i, up to the first await; a call
\* that takes the early return leaves everything as it is.  plays counts
\* the calls that went past the guard, up to MaxPlays, and only calls made
\* while nothing plays are limited by it
handlePlayTTS ==
    /\ variant = "part_000"
    /\ \E i \in 1..Len(turns) :
        /\ HasPlayButton(turns[i])
        /\ IF ~P0_playGuard(playingTurnId)
           THEN UNCHANGED turnVars
           ELSE /\ plays < MaxPlays \/ playingTurnId # 0
                /\ ttsTurn' = turns[i]
                /\ playingTurnId' = turns[i].id
                /\ plays' = IF plays < MaxPlays THEN plays + 1 ELSE plays
                /\ IF turns[i].ipa = Undefined /\ ~IsBlank(turns[i].text)
                   THEN ttsPc' = "ipa" /\ PlayStore(turns)
                   ELSE /\ ttsPc' = P0_playGrammarStep(turns, turns[i]).pc
                        /\ PlayStore(P0_playGrammarStep(turns, turns[i]).turns)

\* the IPA request completes with a text, with an empty text, or throws
PlayIpaResponse ==
    /\ ttsPc = "ipa"
    /\ \E outcome \in {"ipa", "empty", "fail"} :
        IF outcome = "fail"
        THEN /\ PlayStore(P0_playCatch(turns, ttsTurn))
             /\ playingTurnId' = 0 /\ ttsPc' = "idle" /\ ttsTurn' = NoTurn
        ELSE LET ts == IF outcome = "ipa"
                       THEN updateTurnById(turns, ttsTurn.id, [ipa |-> "ipa"])
                       ELSE turns
             IN /\ PlayStore(P0_playGrammarStep(ts, ttsTurn).turns)
                /\ ttsPc' = P0_playGrammarStep(ts, ttsTurn).pc
                /\ UNCHANGED <<playingTurnId, ttsTurn>>
    /\ UNCHANGED plays

\* the grammar request completes or throws (inner try / catch)
PlayGrammarResponse ==
    /\ ttsPc = "grammar"
    /\ \E ok \in BOOLEAN :
        PlayStore(updateTurnById(turns, ttsTurn.id,
            [grammarFeedback |-> IF ok THEN "feedback" ELSE Undefined]))
    /\ ttsPc' = "tts"
    /\ UNCHANGED <<playingTurnId, ttsTurn, plays>>

\* the speech request completes with audio, without audio, or throws
PlayTtsResponse ==
    /\ ttsPc = "tts"
    /\ \E outcome \in {"audio", "noaudio", "fail"} :
        CASE outcome = "audio" ->
                /\ ttsPc' = "audio"
                /\ UNCHANGED <<playingTurnId, ttsTurn>>
                /\ PlayStore(turns)
          [] outcome = "noaudio" ->
                /\ ttsPc' = "idle" /\ playingTurnId' = 0 /\ ttsTurn' = NoTurn
                /\ PlayStore(turns)
          [] outcome = "fail" ->
                /\ ttsPc' = "idle" /\ playingTurnId' = 0 /\ ttsTurn' = NoTurn
                /\ PlayStore(P0_playCatch(turns, ttsTurn))
    /\ UNCHANGED plays

\* an onended handler that leaves playingTurnId as it is
PlayAudioEnded_KeepsLock ==
    /\ ttsPc = "audio"
    /\ ttsPc' = "idle" /\ ttsTurn' = NoTurn
    /\ PlayStore(turns)
    /\ UNCHANGED <<playingTurnId, plays>>

\* source.onended of the turn audio
PlayAudioEnded ==
    /\ ttsPc = "audio"
    /\ ttsPc' = "idle" /\ playingTurnId' = 0 /\ ttsTurn' = NoTurn
    /\ PlayStore(turns)
    /\ UNCHANGED plays

\* ---------------------------------------------------- error display
\* practiceError is written by handleOpError, by its 5 s timer and by the
\* setPracticeError(null) calls of the practice handlers, and is read by the
\* render only: no handler branches on it.  It is modelled on its own, with
\* handleOpError called with any error value (every call site passes the
\* value caught) and clearPracticeError standing for every
\* setPracticeError(null).
MaxErrors == 2

QuotaMessage == "Quota limit reached. Please wait a moment before trying again."
GenericMessage == "An error occurred. Please try again."
NoMessage == "null"

\* texts of errors, as sequences of words
ErrorTexts ==
    {<<>>, <<"other">>, <<"other", "429">>, <<"RESOURCE_EXHAUSTED", "other">>}

\* String.prototype.includes for a word
Includes(text, word) == \E i \in 1..Len(text) : text[i] = word

\* the status strings of an error
ErrorStatuses == {None, Some("RESOURCE_EXHAUSTED"), Some("UNAVAILABLE")}

\* the nested error object: none, or code (0 is absent), status and message
InnerErrors ==
    {None} \cup
    {Some([code |-> c, status |-> st, message |-> m]) :
        c \in {0, 429, 500}, st \in ErrorStatuses,
        m \in {None, Some(<<"other">>), Some(<<"RESOURCE_EXHAUSTED", "other">>)}}

\* the values a catch block passes: null / undefined, a string, an object
ErrorInputs ==
    {[kind |-> "null"]} \cup
    {[kind |-> "string", text |-> t] : t \in ErrorTexts} \cup
    {[kind |-> "object", message |-> m, status |-> st, error |-> inner] :
        m \in {None} \cup {Some(t) : t \in ErrorTexts},
        st \in ErrorStatuses, inner \in InnerErrors}

\* e.message?.includes(word)
MessageIncludes(m, word) == m # None /\ Includes(m[1], word)

\* part_000: isQuotaError
P0_isQuotaError(e) ==
    CASE e.kind = "null" -> FALSE
      [] e.kind = "string" ->
            e.text # <<>>
            /\ (Includes(e.text, "429") \/ Includes(e.text, "RESOURCE_EXHAUSTED"))
      [] e.kind = "object" ->
            \/ MessageIncludes(e.message, "429")
            \/ MessageIncludes(e.message, "RESOURCE_EXHAUSTED")
            \/ e.status = Some("RESOURCE_EXHAUSTED")
            \/ /\ e.error # None
               /\ \/ e.error[1].code = 429
                  \/ e.error[1].status = Some("RESOURCE_EXHAUSTED")

\* isQuotaError without the test of e.error.message
SC_isQuotaError_NoInnerMessage(e) == P0_isQuotaError(e)

\* StreamingConsole.tsx: isQuotaError
SC_isQuotaError(e) ==
    CASE e.kind = "null" -> FALSE
      [] e.kind = "string" ->
            e.text # <<>>
            /\ (Includes(e.text, "429") \/ Includes(e.text, "RESOURCE_EXHAUSTED"))
      [] e.kind = "object" ->
            \/ MessageIncludes(e.message, "429")
            \/ MessageIncludes(e.message, "RESOURCE_EXHAUSTED")
            \/ e.status = Some("RESOURCE_EXHAUSTED")
            \/ /\ e.error # None
               /\ \/ e.error[1].code = 429
                  \/ e.error[1].status = Some("RESOURCE_EXHAUSTED")
                  \/ MessageIncludes(e.error[1].message, "RESOURCE_EXHAUSTED")

VARIABLES
    practiceError,    \* useState practiceError
    errorTimers,      \* pending setTimeout callbacks of handleOpError
    lastError         \* history: the value of the latest handleOpError call

errVars == <<practiceError, errorTimers, lastError>>

\* handleOpError(e): the message, setPracticeError and the 5 s timer
handleOpError ==
    /\ errorTimers < MaxErrors
    /\ \E e \in ErrorInputs :
        LET isQuota == IF variant = "part_000"
                       THEN P0_isQuotaError(e) ELSE SC_isQuotaError(e)
        IN /\ practiceError' = IF isQuota THEN QuotaMessage ELSE GenericMessage
           /\ lastError' = e
    /\ errorTimers' = errorTimers + 1

\* the timer of handleOpError with an empty callback
ErrorTimer_KeepsMessage ==
    /\ errorTimers > 0
    /\ errorTimers' = errorTimers - 1
    /\ UNCHANGED <<practiceError, lastError>>

\* a timer of handleOpError fires: setPracticeError(null)
ErrorTimer ==
    /\ errorTimers > 0
    /\ errorTimers' = errorTimers - 1
    /\ practiceError' = NoMessage
    /\ UNCHANGED lastError

\* setPracticeError(null) at the start of a practice handler
clearPracticeError ==
    /\ practiceError # NoMessage
    /\ practiceError' = NoMessage
    /\ UNCHANGED <<errorTimers, lastError>>

\* -------------------------------------------- debounced IPA lookup
VARIABLES
    now,               \* the time of the timers, in ticks of 0.5 s
    debouncedFetchIPA, \* the pending call of the debounced function, if any
    textChangedAt,     \* history: the time of the latest change of targetText
    ipaLookups,        \* history: fetchIPA calls since that change
    lastIpaText        \* history: the argument of the latest fetchIPA call

ipaVars == <<now, debouncedFetchIPA, textChangedAt, ipaLookups, lastIpaText>>

\* ---------------------------------------------- pronunciation guide
VARIABLES
    playingWord,   \* useState playingWord of PronunciationGuide
    guidePc,       \* where the running handlePlay is suspended
    guideRequests, \* history: speech requests issued by handlePlay
    guideLast      \* history: how the latest handlePlay ended

guideVars == <<playingWord, guidePc, guideRequests, guideLast>>

\* ------------------------------------------- practice recording
VARIABLES
    currentSelection,     \* useState currentSelection: 0 is "", 1 a blank selection, 2 a word
    isPracticeRecording,  \* useState isPracticeRecording
    recStarting,          \* handlePracticeMicToggle calls suspended at `await practiceRecorder.start()`
    recCapturing,         \* the recorder is started and emits 'data' events
    recListeners,         \* listeners of 'data' registered on the recorder
    activeAnalysisText,   \* activeAnalysisTextRef
    practiceAudioChunks,  \* practiceAudioChunks ref
    nextChunk,            \* the next chunk the recorder emits
    isAnalyzing,          \* useState isAnalyzing
    analysis,             \* the analysis request in flight, if any
    practiceFeedback,     \* useState practiceFeedback
    analyzedText,         \* useState analyzedText
    recText,              \* history: the selection or text on screen at the latest start
    recHeard,             \* history: the chunks emitted since the latest start
    recStale              \* history: targetText changed since the latest start

recVars ==
    <<currentSelection, isPracticeRecording, recStarting, recCapturing,
      recListeners, activeAnalysisText, practiceAudioChunks, nextChunk,
      isAnalyzing, analysis, practiceFeedback, analyzedText, recText,
      recHeard, recStale>>

\* --------------------------------------------- selection tooltip
VARIABLES
    selectedWordTooltip, \* useState selectedWordTooltip
    ipaCache,            \* ipaCacheRef: the words with an entry
    tipPending,          \* handleTextareaMouseUp calls suspended at an await
    tipAnswered          \* history: the word of the call resumed last

tipVars == <<selectedWordTooltip, ipaCache, tipPending, tipAnswered>>

\* the state of the components beside the conversation and the practice
\* playback
sideVars == <<guideVars, recVars, tipVars>>

\* ------------------------------------------- practice playback tracker
\* The audio clock (AudioContext.currentTime) counts ticks of 0.1 s.
MaxClock == 5
MaxSources == 2
MaxSynth == 2
\* duration of a decoded practice buffer, in ticks
Duration == 4
\* the 0.2 s end tolerance of the onended handlers, in ticks
Tolerance == 2
\* the values of the practice text: 0 is the empty text, 1 a non-blank text.
\* The handlers test the text for emptiness only.
TargetTexts == 0..1

VARIABLES
    targetText,          \* useState targetText: 0 is "", k > 0 a non-blank text
    clock,               \* audioCtx.currentTime
    practiceAudioBuffer, \* practiceAudioBufferRef: 0 is null, k the buffer decoded for text k
    practiceStartTime,   \* practiceStartTimeRef
    practicePausedAt,    \* practicePausedAtRef
    isPracticePlaying,   \* useState isPracticePlaying
    isTTSProcessing,     \* useState isTTSProcessing (StreamingConsole.tsx)
    isPausedIntent,      \* isPausedIntentRef (part_000)
    practiceSource,      \* practiceSourceRef: 0 is null, k the k-th source node
    sources,             \* the AudioBufferSourceNodes created so far
    synth,               \* the speech-synthesis requests issued so far
    played,              \* history: clock time of the segments paused so far, summed
    naturalEnd           \* history: a segment has played to the end of the buffer

playVars ==
    <<targetText, clock, practiceAudioBuffer, practiceStartTime,
      practicePausedAt, isPracticePlaying, isTTSProcessing, isPausedIntent,
      practiceSource, sources, synth, played, naturalEnd>>

vars == <<turnVars, playVars, errVars, ipaVars, sideVars>>

\* the clock time at which a started source runs out of buffer
EndTime(s) == s.began + Duration - s.offset

\* the source is producing sound
Audible(s) == s.status = "started" /\ clock < EndTime(s)

\* the source has run out of buffer without having been stopped
Exhausted(s) == s.status = "started" /\ clock >= EndTime(s)

\* the 'ended' event of the source is due and its handler has not run yet
EndedPending(s) == s.status = "stopped" \/ Exhausted(s)

\* a source on which stop() has been called: only its pending 'ended'
\* handler and the history of its pause matter from then on
StoppedSource(s, pause) ==
    [began |-> 0, offset |-> 0, status |-> "stopped", handler |-> s.handler,
     buf |-> 0, pause |-> pause]

\* AudioBufferSourceNode.stop(): a source that still plays stops now; on a
\* source that has run out the call changes nothing but the mark
StopSource(srcs, k) ==
    IF k # 0 /\ srcs[k].status = "started"
    THEN [srcs EXCEPT ![k] = StoppedSource(srcs[k], "no")]
    ELSE srcs

\* stop() called by the pause logic of handlePracticeTTS; history: whether
\* more than the end tolerance of the buffer was left at the pause
PauseSource(srcs, k) ==
    IF k # 0 /\ srcs[k].status = "started"
    THEN [srcs EXCEPT ![k] =
              StoppedSource(srcs[k], IF clock < EndTime(srcs[k]) - Tolerance
                                     THEN "early" ELSE "late")]
    ELSE srcs

\* createBufferSource() ... start(0, offset) with the given onended handler
StartSource(srcs, handler, offset, buf) ==
    Append(srcs, [began |-> clock, offset |-> offset, status |-> "started",
                  handler |-> handler, buf |-> buf, pause |-> "no"])

\* a source whose 'ended' handler has run takes no further part
EndedSource(s) ==
    [began |-> 0, offset |-> 0, status |-> "ended", handler |-> s.handler,
     buf |-> 0, pause |-> "no"]

\* a speech request that has been answered takes no further part
DoneRequest == [text |-> 0, status |-> "done"]

Tick ==
    /\ clock < MaxClock
    /\ clock' = clock + 1
    /\ UNCHANGED <<targetText, practiceAudioBuffer, practiceStartTime,
                   practicePausedAt, isPracticePlaying, isTTSProcessing,
                   isPausedIntent, practiceSource, sources, synth, played,
                   naturalEnd>>
    /\ UNCHANGED <<turnVars, errVars, ipaVars, sideVars>>

\* history kept by a pause: the clock time the stopped segment has played
PauseHistory ==
    /\ played' = IF practiceSource # 0
                 THEN played + (clock - sources[practiceSource].began)
                 ELSE played
    /\ naturalEnd' = (naturalEnd \/
                      (practiceSource # 0 /\ Exhausted(sources[practiceSource])))

\* "Play the buffer" that always starts at the beginning of the buffer
P0_playBuffer_FromStart(buf) ==
    /\ Len(sources) < MaxSources
    /\ practicePausedAt' = practicePausedAt
    /\ sources' = StartSource(sources, "p0", 0, buf)
    /\ practiceStartTime' = clock
    /\ practiceSource' = Len(sources) + 1

\* "Play the buffer" without the test of lines 888-890
P0_playBuffer_NoWrap(buf) ==
    /\ Len(sources) < MaxSources
    /\ practicePausedAt' = practicePausedAt
    /\ sources' = StartSource(sources, "p0", practicePausedAt, buf)
    /\ practiceStartTime' = clock
    /\ practiceSource' = Len(sources) + 1

\* part_000 handlePracticeTTS, "Play the buffer": start a segment of buffer
\* buf at practicePausedAt, wrapped to 0 at or past the end
P0_playBuffer(buf) ==
    LET off == IF practicePausedAt >= Duration THEN 0 ELSE practicePausedAt IN
    /\ Len(sources) < MaxSources
    /\ practicePausedAt' = off
    /\ sources' = StartSource(sources, "p0", off, buf)
    /\ practiceStartTime' = clock
    /\ practiceSource' = Len(sources) + 1

\* part_000: click on Listen / Pause, up to the await of the speech request
P0_handlePracticeTTS ==
    /\ variant = "part_000"
    /\ targetText # 0
    /\ IF isPracticePlaying
       THEN \* pause logic
            /\ IF practiceSource # 0
               THEN /\ isPausedIntent' = TRUE
                    /\ sources' = PauseSource(sources, practiceSource)
                    /\ practicePausedAt' =
                           practicePausedAt + (clock - practiceStartTime)
               ELSE UNCHANGED <<isPausedIntent, sources, practicePausedAt>>
            /\ isPracticePlaying' = FALSE
            /\ PauseHistory
            /\ UNCHANGED <<practiceAudioBuffer, practiceStartTime,
                           practiceSource, synth>>
       ELSE \* play / resume logic
            /\ isPracticePlaying' = TRUE
            /\ isPausedIntent' = FALSE
            /\ IF practiceAudioBuffer = 0
               THEN /\ Len(synth) < MaxSynth
                    /\ practicePausedAt' = 0
                    /\ synth' = Append(synth, [text |-> targetText,
                                               status |-> "pending"])
                    /\ UNCHANGED <<sources, practiceStartTime, practiceSource>>
               ELSE /\ P0_playBuffer(practiceAudioBuffer)
                    /\ UNCHANGED synth
            /\ UNCHANGED <<practiceAudioBuffer, played, naturalEnd>>
    /\ UNCHANGED <<targetText, clock, isTTSProcessing>>
    /\ UNCHANGED <<turnVars, errVars, ipaVars, sideVars>>

\* part_000 handlePracticeTTS after its await: the speech request r returns
\* audio that decodes, returns no audio, or throws
P0_synthResponse ==
    /\ variant = "part_000"
    /\ \E r \in 1..Len(synth), outcome \in {"audio", "noaudio", "fail"} :
        /\ synth[r].status = "pending"
        /\ synth' = [synth EXCEPT ![r] = DoneRequest]
        /\ IF outcome = "audio"
           THEN /\ practiceAudioBuffer' = synth[r].text
                /\ P0_playBuffer(synth[r].text)
                /\ UNCHANGED isPracticePlaying
           ELSE /\ isPracticePlaying' = FALSE
                /\ UNCHANGED <<practiceAudioBuffer, practicePausedAt, sources,
                               practiceStartTime, practiceSource>>
    /\ UNCHANGED <<targetText, clock, isTTSProcessing, isPausedIntent, played,
                   naturalEnd>>
    /\ UNCHANGED <<turnVars, errVars, ipaVars, sideVars>>

\* part_000: source.onended of the k-th source
P0_onended ==
    /\ variant = "part_000"
    /\ \E k \in 1..Len(sources) :
        /\ EndedPending(sources[k])
        /\ sources' = [sources EXCEPT ![k] = EndedSource(sources[k])]
        /\ naturalEnd' = (naturalEnd \/ Exhausted(sources[k]))
        /\ IF isPausedIntent
           THEN UNCHANGED <<isPracticePlaying, practicePausedAt>>
           ELSE isPracticePlaying' = FALSE /\ practicePausedAt' = 0
        /\ practiceSource' = 0
    /\ UNCHANGED <<targetText, clock, practiceAudioBuffer, practiceStartTime,
                   isTTSProcessing, isPausedIntent, synth, played>>
    /\ UNCHANGED <<turnVars, errVars, ipaVars, sideVars>>

\* part_000: useEffect([targetText]) after the text became k
P0_setTargetText ==
    /\ variant = "part_000"
    /\ \E k \in TargetTexts :
        /\ k # targetText
        /\ targetText' = k
    /\ IF practiceAudioBuffer # 0
       THEN /\ IF isPracticePlaying /\ practiceSource # 0
               THEN /\ isPausedIntent' = FALSE
                    /\ sources' = StopSource(sources, practiceSource)
               ELSE UNCHANGED <<isPausedIntent, sources>>
            /\ practiceAudioBuffer' = 0
            /\ practicePausedAt' = 0
            /\ isPracticePlaying' = FALSE
       ELSE UNCHANGED <<isPausedIntent, sources, practiceAudioBuffer,
                        practicePausedAt, isPracticePlaying>>
    /\ played' = 0
    /\ naturalEnd' = FALSE
    /\ UNCHANGED <<clock, practiceStartTime, isTTSProcessing, practiceSource,
                   synth>>
    /\ UNCHANGED <<turnVars, errVars, ipaVars, sideVars>>

\* part_000: click on Clear, with the text effect that follows it
P0_handleClearPractice ==
    /\ variant = "part_000"
    /\ targetText # 0
    /\ targetText' = 0
    /\ IF practiceSource # 0
       THEN /\ isPausedIntent' = FALSE
            /\ sources' = StopSource(sources, practiceSource)
       ELSE UNCHANGED <<isPausedIntent, sources>>
    /\ practiceSource' = 0
    /\ isPracticePlaying' = FALSE
    /\ practiceAudioBuffer' = 0
    /\ practicePausedAt' = 0
    /\ played' = 0
    /\ naturalEnd' = FALSE
    /\ UNCHANGED <<clock, practiceStartTime, isTTSProcessing, synth>>
    /\ UNCHANGED <<turnVars, errVars, ipaVars, sideVars>>

\* StreamingConsole.tsx: click on Listen / Pause, up to the await of the
\* speech request.  The button is disabled while isTTSProcessing.
SC_handlePracticeTTS ==
    /\ variant = "console"
    /\ targetText # 0
    /\ ~isTTSProcessing
    /\ IF isPracticePlaying
       THEN \* 1. pause logic
            /\ sources' = PauseSource(sources, practiceSource)
            /\ practiceSource' = 0
            /\ practicePausedAt' = clock - practiceStartTime
            /\ isPracticePlaying' = FALSE
            /\ isTTSProcessing' = FALSE
            /\ PauseHistory
            /\ UNCHANGED <<practiceStartTime, synth>>
       ELSE IF /\ practiceAudioBuffer # 0
               /\ practicePausedAt > 0
               /\ practicePausedAt < Duration
       THEN \* 2. resume logic
            /\ Len(sources) < MaxSources
            /\ sources' = StartSource(sources, "resume", practicePausedAt,
                                      practiceAudioBuffer)
            /\ practiceSource' = Len(sources) + 1
            /\ practiceStartTime' = clock - practicePausedAt
            /\ isPracticePlaying' = TRUE
            /\ UNCHANGED <<practicePausedAt, isTTSProcessing, synth, played,
                           naturalEnd>>
       ELSE \* 3. new start logic
            /\ Len(synth) < MaxSynth
            /\ isTTSProcessing' = TRUE
            /\ practicePausedAt' = 0
            /\ synth' = Append(synth, [text |-> targetText, status |-> "pending"])
            /\ UNCHANGED <<sources, practiceSource, practiceStartTime,
                           isPracticePlaying, played, naturalEnd>>
    /\ UNCHANGED <<targetText, clock, practiceAudioBuffer, isPausedIntent>>
    /\ UNCHANGED <<turnVars, errVars, ipaVars, sideVars>>

\* StreamingConsole.tsx handlePracticeTTS after its await: the speech
\* request r returns audio that decodes, returns no audio, or throws
SC_synthResponse ==
    /\ variant = "console"
    /\ \E r \in 1..Len(synth), outcome \in {"audio", "noaudio", "fail"} :
        /\ synth[r].status = "pending"
        /\ synth' = [synth EXCEPT ![r] = DoneRequest]
        /\ CASE outcome = "audio" ->
                  /\ Len(sources) < MaxSources
                  /\ practiceAudioBuffer' = synth[r].text
                  /\ practiceStartTime' = clock
                  /\ sources' = StartSource(sources, "new", 0, synth[r].text)
                  /\ practiceSource' = Len(sources) + 1
                  /\ isPracticePlaying' = TRUE
             [] outcome = "noaudio" ->
                  UNCHANGED <<practiceAudioBuffer, practiceStartTime, sources,
                              practiceSource, isPracticePlaying>>
             [] outcome = "fail" ->
                  /\ isPracticePlaying' = FALSE
                  /\ UNCHANGED <<practiceAudioBuffer, practiceStartTime,
                                 sources, practiceSource>>
    /\ isTTSProcessing' = FALSE
    /\ UNCHANGED <<targetText, clock, practicePausedAt, isPausedIntent, played,
                   naturalEnd>>
    /\ UNCHANGED <<turnVars, errVars, ipaVars, sideVars>>

\* StreamingConsole.tsx: source.onended of the k-th source.  The handler of
\* a resumed segment reads the duration through practiceAudioBufferRef, the
\* handler of a first segment holds its buffer.
SC_onended ==
    /\ variant = "console"
    /\ \E k \in 1..Len(sources) :
        /\ EndedPending(sources[k])
        /\ sources' = [sources EXCEPT ![k] = EndedSource(sources[k])]
        /\ naturalEnd' = (naturalEnd \/ Exhausted(sources[k]))
        /\ LET duration == IF sources[k].handler = "resume"
                              /\ practiceAudioBuffer = 0
                           THEN 0 ELSE Duration
           IN IF clock >= practiceStartTime + duration - Tolerance
              THEN isPracticePlaying' = FALSE /\ practicePausedAt' = 0
              ELSE UNCHANGED <<isPracticePlaying, practicePausedAt>>
    /\ UNCHANGED <<targetText, clock, practiceAudioBuffer, practiceStartTime,
                   isTTSProcessing, isPausedIntent, practiceSource, synth,
                   played>>
    /\ UNCHANGED <<turnVars, errVars, ipaVars, sideVars>>

\* StreamingConsole.tsx: useEffect([targetText]) after the text became k
SC_setTargetText ==
    /\ variant = "console"
    /\ \E k \in TargetTexts :
        /\ k # targetText
        /\ targetText' = k
    /\ sources' = StopSource(sources, practiceSource)
    /\ practiceSource' = 0
    /\ practiceAudioBuffer' = 0
    /\ practicePausedAt' = 0
    /\ isPracticePlaying' = FALSE
    /\ isTTSProcessing' = FALSE
    /\ played' = 0
    /\ naturalEnd' = FALSE
    /\ UNCHANGED <<clock, practiceStartTime, isPausedIntent, synth>>
    /\ UNCHANGED <<turnVars, errVars, ipaVars, sideVars>>

\* StreamingConsole.tsx: click on Clear (enabled while there is a text), with
\* the text effect that follows it
SC_handleClearPractice ==
    /\ variant = "console"
    /\ targetText # 0
    /\ targetText' = 0
    /\ sources' = StopSource(sources, practiceSource)
    /\ practiceSource' = 0
    /\ practiceAudioBuffer' = 0
    /\ practicePausedAt' = 0
    /\ isPracticePlaying' = FALSE
    /\ isTTSProcessing' = FALSE
    /\ played' = 0
    /\ naturalEnd' = FALSE
    /\ UNCHANGED <<clock, practiceStartTime, isPausedIntent, synth>>
    /\ UNCHANGED <<turnVars, errVars, ipaVars, sideVars>>

\* ------------------------------------------- debounced IPA lookup
\* The effect of lines 796-807 (part_000) / 850-857 (StreamingConsole.tsx)
\* runs after every change of targetText, next to the text effect of the
\* playback tracker.  It reads targetText only and writes the debounce timer
\* only, so it is modelled on its own, from a state where nothing has been
\* played (the text effect of the tracker then leaves its state as it is).
\* The AI client exists.
MaxNow == 5
\* the wait of debounce(..., 1000), in ticks
Wait == 2
\* the texts: 0 is "", 1 and 2 are non-blank texts, 3 is a text that starts
\* with "Searching", 4 is a text of white space
IpaTexts == 0..4

\* text.trim() is empty
TextIsBlank(k) == k \in {0, 4}

\* text.startsWith("Searching")
StartsWithSearching(k) == k = 3

\* lodash debounce invoking on the leading edge: the call is due at once
debounce_Leading(k) == Some([due |-> now, text |-> k])

\* lodash debounce(f, 1000)(k) with no call pending: f(k) is due after the
\* wait (trailing edge)
debounce(k) == Some([due |-> now + Wait, text |-> k])

\* part_000: useEffect([targetText, debouncedFetchIPA]) after the cleanup of
\* the previous run has cancelled the pending call
P0_ipaEffect(k) ==
    IF ~TextIsBlank(k) /\ ~StartsWithSearching(k) THEN debounce(k) ELSE None

\* StreamingConsole.tsx: useEffect([targetText, ai, debouncedFetchIPA]) after
\* the cleanup of the previous run has cancelled the pending call
SC_ipaEffect(k) ==
    IF k # 0 THEN debounce(k) ELSE None

\* the first test of fetchIPA lets the text through
\* (part_000: text.trim(); StreamingConsole.tsx: text)
PassesFetchGuard(k) ==
    IF variant = "part_000" THEN ~TextIsBlank(k) ELSE k # 0

\* targetText becomes k: cleanup of the previous effect run, then the effect
IpaSetTargetText ==
    /\ \E k \in IpaTexts :
        /\ k # targetText
        /\ targetText' = k
        /\ debouncedFetchIPA' =
               IF variant = "part_000" THEN P0_ipaEffect(k) ELSE SC_ipaEffect(k)
    /\ textChangedAt' = now
    /\ ipaLookups' = 0
    /\ UNCHANGED <<now, lastIpaText>>
    /\ UNCHANGED <<clock, practiceAudioBuffer, practiceStartTime,
                   practicePausedAt, isPracticePlaying, isTTSProcessing,
                   isPausedIntent, practiceSource, sources, synth, played,
                   naturalEnd>>
    /\ UNCHANGED <<turnVars, errVars, sideVars>>

\* the timer of the debounced function runs, at or after the time it is due:
\* fetchIPA is called with the argument of the pending call
IpaTimer ==
    /\ debouncedFetchIPA # None
    /\ now >= debouncedFetchIPA[1].due
    /\ debouncedFetchIPA' = None
    /\ IF PassesFetchGuard(debouncedFetchIPA[1].text)
       THEN /\ ipaLookups' = ipaLookups + 1
            /\ lastIpaText' = debouncedFetchIPA[1].text
       ELSE UNCHANGED <<ipaLookups, lastIpaText>>
    /\ UNCHANGED <<now, textChangedAt>>
    /\ UNCHANGED <<turnVars, playVars, errVars, sideVars>>

\* time passes
IpaTick ==
    /\ now < MaxNow
    /\ now' = now + 1
    /\ UNCHANGED <<debouncedFetchIPA, textChangedAt, ipaLookups, lastIpaText>>
    /\ UNCHANGED <<turnVars, playVars, errVars, sideVars>>

\* ---------------------------------------------- pronunciation guide
MaxGuidePlays == 4

\* words of the guide items
GuideWords == {"sheep", "ship", "good", "shoot", "bed", "teacher"}

NoWord == "null"

\* a handlePlay that goes on whatever playingWord holds
Guide_playGuard_Open(playing) == TRUE

\* handlePlay, its first line: the click goes on past the early return
Guide_playGuard(playing) == playing = NoWord

\* click on the example of a word, up to the await of the speech request;
\* new AudioContext may throw, and the catch block runs at once
Guide_handlePlay ==
    /\ \E word \in GuideWords, ctx \in BOOLEAN :
        IF ~Guide_playGuard(playingWord)
        THEN UNCHANGED guideVars
        ELSE /\ guideRequests < MaxGuidePlays
             /\ IF ctx
                THEN /\ playingWord' = word
                     /\ guidePc' = "request"
                     /\ guideRequests' = guideRequests + 1
                     /\ guideLast' = "none"
                ELSE /\ playingWord' = NoWord
                     /\ guidePc' = "idle"
                     /\ guideLast' = "error"
                     /\ UNCHANGED guideRequests
    /\ UNCHANGED <<turnVars, playVars, errVars, ipaVars, recVars, tipVars>>

\* the speech request completes with audio that decodes, without audio
\* data, or the request or the decoding throws
Guide_ttsResponse ==
    /\ guidePc = "request"
    /\ \E outcome \in {"audio", "noaudio", "fail"} :
        IF outcome = "audio"
        THEN guidePc' = "audio" /\ UNCHANGED <<playingWord, guideLast>>
        ELSE /\ guidePc' = "idle"
             /\ playingWord' = NoWord
             /\ guideLast' = IF outcome = "fail" THEN "error" ELSE "noaudio"
    /\ UNCHANGED guideRequests
    /\ UNCHANGED <<turnVars, playVars, errVars, ipaVars, recVars, tipVars>>

\* source.onended of the example audio
Guide_onended ==
    /\ guidePc = "audio"
    /\ guidePc' = "idle"
    /\ playingWord' = NoWord
    /\ guideLast' = "ended"
    /\ UNCHANGED guideRequests
    /\ UNCHANGED <<turnVars, playVars, errVars, ipaVars, recVars, tipVars>>

\* ------------------------------------------- practice recording
\* StreamingConsole.tsx only.  The recorder (lib/audio-recorder) is modelled
\* from its use: on('data', f) registers f, off('data') removes every
\* listener of 'data', start() completes or fails some time after the call,
\* a started recorder emits chunks until stop(), and every registered
\* listener is called with every chunk.
MaxChunks == 2
MaxListeners == 2

\* the values of currentSelection
Selections == 0..2

\* currentSelection.trim().length > 0
NonBlankSelection(sel) == sel = 2

TextOfTarget(k) == [src |-> "target", v |-> k]
TextOfSelection(sel) == [src |-> "selection", v |-> sel]
EmptyText == TextOfTarget(0)

\* handlePracticeMicToggle: textToRead
TextToRead(sel, text) ==
    IF NonBlankSelection(sel) THEN TextOfSelection(sel) ELSE TextOfTarget(text)

\* analyzePronunciation: textToAnalyze
SC_textToAnalyze(ref, sel, text) == ref

\* the onData listeners run for chunk c: each pushes it
PushChunk(chunks, c, listeners) ==
    chunks \o [k \in 1..listeners |-> c]

\* the mic button is enabled
MicEnabled == targetText # 0 /\ ~isAnalyzing

\* the playback tracker while nothing has been played
playbackRest ==
    <<clock, practiceAudioBuffer, practiceStartTime, practicePausedAt,
      isPracticePlaying, isTTSProcessing, isPausedIntent, practiceSource,
      sources, synth, played, naturalEnd>>

\* handleSelectionChange / handleTextareaMouseUp: setCurrentSelection
Rec_setSelection ==
    /\ variant = "console"
    /\ targetText # 0
    /\ \E sel \in Selections :
        /\ sel # currentSelection
        /\ currentSelection' = sel
    /\ UNCHANGED <<isPracticeRecording, recStarting, recCapturing,
                   recListeners, activeAnalysisText, practiceAudioChunks,
                   nextChunk, isAnalyzing, analysis, practiceFeedback,
                   analyzedText, recText, recHeard, recStale>>
    /\ UNCHANGED <<turnVars, playVars, errVars, ipaVars, guideVars, tipVars>>

\* the part of useEffect([targetText]) that writes the recording state
Rec_textEffect ==
    /\ practiceFeedback' = None
    /\ currentSelection' = 0
    /\ recStale' = TRUE
    /\ analysis' = IF analysis = None THEN None
                   ELSE Some([analysis[1] EXCEPT !.stale = TRUE])

\* the text is edited, with the text effect (nothing has been played: the
\* effect leaves the playback tracker as it is)
Rec_setTargetText ==
    /\ variant = "console"
    /\ \E k \in TargetTexts :
        /\ k # targetText
        /\ targetText' = k
    /\ Rec_textEffect
    /\ UNCHANGED <<isPracticeRecording, recStarting, recCapturing,
                   recListeners, activeAnalysisText, practiceAudioChunks,
                   nextChunk, isAnalyzing, analyzedText, recText, recHeard>>
    /\ UNCHANGED playbackRest
    /\ UNCHANGED <<turnVars, errVars, ipaVars, guideVars, tipVars>>

\* handlePracticeMicToggle while isPracticeRecording is false, up to its
\* await
Rec_micStart ==
    /\ variant = "console"
    /\ MicEnabled
    /\ ~isPracticeRecording
    /\ recListeners < MaxListeners
    /\ recStarting < MaxListeners
    /\ practiceFeedback' = None
    /\ activeAnalysisText' = TextToRead(currentSelection, targetText)
    /\ practiceAudioChunks' = <<>>
    /\ recListeners' = recListeners + 1
    /\ recStarting' = recStarting + 1
    /\ recText' = IF NonBlankSelection(currentSelection)
                  THEN TextOfSelection(currentSelection)
                  ELSE TextOfTarget(targetText)
    /\ recHeard' = <<>>
    /\ recStale' = FALSE
    /\ UNCHANGED <<currentSelection, isPracticeRecording, recCapturing,
                   nextChunk, isAnalyzing, analysis, analyzedText>>
    /\ UNCHANGED <<turnVars, playVars, errVars, ipaVars, guideVars, tipVars>>

\* practiceRecorder.start() completes: setIsPracticeRecording(true); or it
\* fails (no microphone, permission denied) and the handler ends there
Rec_started ==
    /\ recStarting > 0
    /\ recStarting' = recStarting - 1
    /\ \E ok \in BOOLEAN :
        IF ok
        THEN recCapturing' = TRUE /\ isPracticeRecording' = TRUE
        ELSE UNCHANGED <<recCapturing, isPracticeRecording>>
    /\ UNCHANGED <<currentSelection, recListeners, activeAnalysisText,
                   practiceAudioChunks, nextChunk, isAnalyzing, analysis,
                   practiceFeedback, analyzedText, recText, recHeard, recStale>>
    /\ UNCHANGED <<turnVars, playVars, errVars, ipaVars, guideVars, tipVars>>

\* the recorder emits a chunk
Rec_data ==
    /\ recCapturing
    /\ nextChunk <= MaxChunks
    /\ practiceAudioChunks' =
           PushChunk(practiceAudioChunks, nextChunk, recListeners)
    /\ recHeard' = Append(recHeard, nextChunk)
    /\ nextChunk' = nextChunk + 1
    /\ UNCHANGED <<currentSelection, isPracticeRecording, recStarting,
                   recCapturing, recListeners, activeAnalysisText, isAnalyzing,
                   analysis, practiceFeedback, analyzedText, recText, recStale>>
    /\ UNCHANGED <<turnVars, playVars, errVars, ipaVars, guideVars, tipVars>>

\* handlePracticeMicToggle while isPracticeRecording is true, with
\* analyzePronunciation up to its await
Rec_micStop ==
    /\ variant = "console"
    /\ MicEnabled
    /\ isPracticeRecording
    /\ recCapturing' = FALSE
    /\ recListeners' = 0
    /\ isPracticeRecording' = FALSE
    /\ LET textToAnalyze ==
               SC_textToAnalyze(activeAnalysisText, currentSelection, targetText)
       IN IF textToAnalyze = EmptyText \/ practiceAudioChunks = <<>>
          THEN UNCHANGED <<isAnalyzing, analysis>>
          ELSE /\ isAnalyzing' = TRUE
               /\ analysis' = Some([text |-> textToAnalyze,
                                    chunks |-> practiceAudioChunks,
                                    stale |-> recStale])
    /\ UNCHANGED <<currentSelection, recStarting, activeAnalysisText,
                   practiceAudioChunks, nextChunk, practiceFeedback,
                   analyzedText, recText, recHeard, recStale>>
    /\ UNCHANGED <<turnVars, playVars, errVars, ipaVars, guideVars, tipVars>>

\* the analysis request completes with a text, with an empty text, or fails
Rec_analysisResponse ==
    /\ analysis # None
    /\ \E outcome \in {"feedback", "empty", "fail"} :
        IF outcome = "feedback"
        THEN /\ practiceFeedback' = Some([stale |-> analysis[1].stale])
             /\ analyzedText' = analysis[1].text
        ELSE UNCHANGED <<practiceFeedback, analyzedText>>
    /\ isAnalyzing' = FALSE
    /\ analysis' = None
    /\ UNCHANGED <<currentSelection, isPracticeRecording, recStarting,
                   recCapturing, recListeners, activeAnalysisText,
                   practiceAudioChunks, nextChunk, recText, recHeard, recStale>>
    /\ UNCHANGED <<turnVars, playVars, errVars, ipaVars, guideVars, tipVars>>

\* click on Clear, with the text effect that follows it
Rec_handleClearPractice ==
    /\ variant = "console"
    /\ targetText # 0
    /\ targetText' = 0
    /\ analyzedText' = EmptyText
    /\ Rec_textEffect
    /\ IF isPracticeRecording
       THEN recCapturing' = FALSE /\ recListeners' = 0
            /\ isPracticeRecording' = FALSE
       ELSE UNCHANGED <<recCapturing, recListeners, isPracticeRecording>>
    /\ UNCHANGED <<recStarting, activeAnalysisText, practiceAudioChunks,
                   nextChunk, isAnalyzing, recText, recHeard>>
    /\ UNCHANGED playbackRest
    /\ UNCHANGED <<turnVars, errVars, ipaVars, guideVars, tipVars>>

\* --------------------------------------------- selection tooltip
MaxLookups == 2

\* the words that can be selected in the practice text
TipWords == {"w1", "w2"}

\* the tooltip as set by handleTextareaMouseUp for a word: the cached entry,
\* or null (part_000) / "Loading..." (StreamingConsole.tsx)
P0_newTooltip(word, cached) ==
    Some([word |-> word, ipa |-> IF cached THEN "ipa" ELSE "null"])
SC_newTooltip(word, cached) ==
    Some([word |-> word, ipa |-> IF cached THEN "ipa" ELSE "loading"])

\* the functional update of the success path, in both revisions
TooltipWithData(prev, word) ==
    IF prev # None /\ prev[1].word = word
    THEN Some([prev[1] EXCEPT !.ipa = "ipa"])
    ELSE prev

\* part_000: the functional update of the catch block of the lookup
P0_tooltipWithError(prev, word) ==
    IF prev # None /\ prev[1].word = word
    THEN Some([prev[1] EXCEPT !.ipa = "error"])
    ELSE prev

\* StreamingConsole.tsx: the functional update of the catch block
SC_tooltipWithError(prev, word) ==
    IF prev # None THEN Some([prev[1] EXCEPT !.ipa = "error"]) ELSE None

\* the pending calls without the k-th
WithoutCall(calls, k) ==
    [j \in 1..(Len(calls) - 1) |-> IF j < k THEN calls[j] ELSE calls[j + 1]]

\* mouse-up with a single word selected, up to the first await: part_000
\* asks for the speech first and looks the word up afterwards unless it was
\* cached at the click; StreamingConsole.tsx looks an uncached word up first
Tip_handleTextareaMouseUp ==
    /\ Len(tipPending) < MaxLookups
    /\ \E word \in TipWords :
        LET cached == word \in ipaCache
        IN IF variant = "part_000"
           THEN /\ selectedWordTooltip' = P0_newTooltip(word, cached)
                /\ tipPending' = Append(tipPending,
                       [word |-> word, pc |-> "tts", lookup |-> ~cached])
           ELSE /\ selectedWordTooltip' = SC_newTooltip(word, cached)
                /\ tipPending' = Append(tipPending,
                       [word |-> word,
                        pc |-> IF cached THEN "tts" ELSE "lookup",
                        lookup |-> FALSE])
    /\ UNCHANGED <<ipaCache, tipAnswered>>
    /\ UNCHANGED <<turnVars, playVars, errVars, ipaVars, guideVars, recVars>>

\* handleTextareaMouseDown
Tip_handleTextareaMouseDown ==
    /\ selectedWordTooltip # None
    /\ selectedWordTooltip' = None
    /\ UNCHANGED <<ipaCache, tipPending, tipAnswered>>
    /\ UNCHANGED <<turnVars, playVars, errVars, ipaVars, guideVars, recVars>>

\* part_000: the speech request of the k-th call completes or fails (its own
\* try / catch); the lookup follows unless the word was cached
P0_tipTtsResponse ==
    /\ variant = "part_000"
    /\ \E k \in 1..Len(tipPending) :
        /\ tipPending[k].pc = "tts"
        /\ tipPending' = IF tipPending[k].lookup
                         THEN [tipPending EXCEPT ![k].pc = "lookup"]
                         ELSE WithoutCall(tipPending, k)
        /\ tipAnswered' = tipPending[k].word
    /\ UNCHANGED <<selectedWordTooltip, ipaCache>>
    /\ UNCHANGED <<turnVars, playVars, errVars, ipaVars, guideVars, recVars>>

\* part_000: the lookup of the k-th call completes or fails
P0_tipLookupResponse ==
    /\ variant = "part_000"
    /\ \E k \in 1..Len(tipPending), ok \in BOOLEAN :
        /\ tipPending[k].pc = "lookup"
        /\ tipPending' = WithoutCall(tipPending, k)
        /\ tipAnswered' = tipPending[k].word
        /\ IF ok
           THEN /\ selectedWordTooltip' =
                       TooltipWithData(selectedWordTooltip, tipPending[k].word)
                /\ ipaCache' = ipaCache \cup {tipPending[k].word}
           ELSE /\ selectedWordTooltip' =
                       P0_tooltipWithError(selectedWordTooltip, tipPending[k].word)
                /\ UNCHANGED ipaCache
    /\ UNCHANGED <<turnVars, playVars, errVars, ipaVars, guideVars, recVars>>

\* StreamingConsole.tsx: the lookup of the k-th call completes with an entry
\* for the word, without one, or fails; the speech request follows unless it
\* failed
SC_tipLookupResponse ==
    /\ variant = "console"
    /\ \E k \in 1..Len(tipPending), outcome \in {"entry", "empty", "fail"} :
        /\ tipPending[k].pc = "lookup"
        /\ tipAnswered' = tipPending[k].word
        /\ CASE outcome = "entry" ->
                  /\ selectedWordTooltip' =
                         TooltipWithData(selectedWordTooltip, tipPending[k].word)
                  /\ ipaCache' = ipaCache \cup {tipPending[k].word}
                  /\ tipPending' = [tipPending EXCEPT ![k].pc = "tts"]
             [] outcome = "empty" ->
                  /\ tipPending' = [tipPending EXCEPT ![k].pc = "tts"]
                  /\ UNCHANGED <<selectedWordTooltip, ipaCache>>
             [] outcome = "fail" ->
                  /\ selectedWordTooltip' =
                         SC_tooltipWithError(selectedWordTooltip, tipPending[k].word)
                  /\ tipPending' = WithoutCall(tipPending, k)
                  /\ UNCHANGED ipaCache
    /\ UNCHANGED <<turnVars, playVars, errVars, ipaVars, guideVars, recVars>>

\* StreamingConsole.tsx: the speech request of the k-th call completes or
\* fails (the same catch block)
SC_tipTtsResponse ==
    /\ variant = "console"
    /\ \E k \in 1..Len(tipPending), ok \in BOOLEAN :
        /\ tipPending[k].pc = "tts"
        /\ tipAnswered' = tipPending[k].word
        /\ tipPending' = WithoutCall(tipPending, k)
        /\ selectedWordTooltip' =
               IF ok THEN selectedWordTooltip
               ELSE SC_tooltipWithError(selectedWordTooltip, tipPending[k].word)
    /\ UNCHANGED ipaCache
    /\ UNCHANGED <<turnVars, playVars, errVars, ipaVars, guideVars, recVars>>

\* ------------------------------------------------------- specifications
Init ==
    /\ variant \in {"part_000", "console"}
    /\ turns = <<>>
    /\ nextId = 1
    /\ events = <<>>
    /\ fetchingFeedback = {}
    /\ feedbackInFlight = [id \in 1..MaxTurns |-> 0]
    /\ playingTurnId = 0
    /\ ttsPc = "idle"
    /\ ttsTurn = NoTurn
    /\ plays = 0
    /\ targetText = 0
    /\ clock = 0
    /\ practiceAudioBuffer = 0
    /\ practiceStartTime = 0
    /\ practicePausedAt = 0
    /\ isPracticePlaying = FALSE
    /\ isTTSProcessing = FALSE
    /\ isPausedIntent = FALSE
    /\ practiceSource = 0
    /\ sources = <<>>
    /\ synth = <<>>
    /\ played = 0
    /\ naturalEnd = FALSE
    /\ practiceError = NoMessage
    /\ errorTimers = 0
    /\ lastError = [kind |-> "null"]
    /\ now = 0
    /\ debouncedFetchIPA = None
    /\ textChangedAt = 0
    /\ ipaLookups = 0
    /\ lastIpaText = 0
    /\ playingWord = NoWord
    /\ guidePc = "idle"
    /\ guideRequests = 0
    /\ guideLast = "none"
    /\ currentSelection = 0
    /\ isPracticeRecording = FALSE
    /\ recStarting = 0
    /\ recCapturing = FALSE
    /\ recListeners = 0
    /\ activeAnalysisText = EmptyText
    /\ practiceAudioChunks = <<>>
    /\ nextChunk = 1
    /\ isAnalyzing = FALSE
    /\ analysis = None
    /\ practiceFeedback = None
    /\ analyzedText = EmptyText
    /\ recText = EmptyText
    /\ recHeard = <<>>
    /\ recStale = FALSE
    /\ selectedWordTooltip = None
    /\ ipaCache = {}
    /\ tipPending = <<>>
    /\ tipAnswered = "none"

\* the turn log under the client events and the feedback requests
NextTurns ==
    \/ (InputTranscription /\ UNCHANGED <<playVars, errVars, ipaVars, sideVars>>)
    \/ (OutputTranscription /\ UNCHANGED <<playVars, errVars, ipaVars, sideVars>>)
    \/ (Content /\ UNCHANGED <<playVars, errVars, ipaVars, sideVars>>)
    \/ (TurnComplete /\ UNCHANGED <<playVars, errVars, ipaVars, sideVars>>)
    \/ (FeedbackResponse /\ UNCHANGED <<playVars, errVars, ipaVars, sideVars>>)

SpecTurns == Init /\ [][NextTurns]_vars

\* the turn log under the client events, the feedback requests and
\* handlePlayTTS; the events carry the fragments of the Annot sets (content
\* events always carry text here: SpecTurns covers the ones without)
AnnotFrags == {Hel}
AnnotPartLists == {Some(<<Some(lo)>>)}
AnnotGrounding == {None, Some(<<"g1">>)}

NextAnnotations ==
    \/ (InputTranscriptionOf(AnnotFrags) /\ UNCHANGED <<playVars, errVars, ipaVars, sideVars>>)
    \/ (OutputTranscriptionOf(AnnotFrags) /\ UNCHANGED <<playVars, errVars, ipaVars, sideVars>>)
    \/ (ContentOf(AnnotPartLists, AnnotGrounding) /\ UNCHANGED <<playVars, errVars, ipaVars, sideVars>>)
    \/ (TurnComplete /\ UNCHANGED <<playVars, errVars, ipaVars, sideVars>>)
    \/ (FeedbackResponse /\ UNCHANGED <<playVars, errVars, ipaVars, sideVars>>)
    \/ (handlePlayTTS /\ UNCHANGED <<playVars, errVars, ipaVars, sideVars>>)
    \/ (PlayIpaResponse /\ UNCHANGED <<playVars, errVars, ipaVars, sideVars>>)
    \/ (PlayGrammarResponse /\ UNCHANGED <<playVars, errVars, ipaVars, sideVars>>)
    \/ (PlayTtsResponse /\ UNCHANGED <<playVars, errVars, ipaVars, sideVars>>)
    \/ (PlayAudioEnded /\ UNCHANGED <<playVars, errVars, ipaVars, sideVars>>)

SpecAnnotations == Init /\ [][NextAnnotations]_vars

\* handlePlayTTS over a log of user turns only, with the requests of
\* handlePlayTTS completing (each await of generateContent resolves or
\* rejects) and the started turn audio ending
NextTurnPlayback ==
    \/ (InputTranscriptionOf(AnnotFrags) /\ UNCHANGED <<playVars, errVars, ipaVars, sideVars>>)
    \/ (TurnComplete /\ UNCHANGED <<playVars, errVars, ipaVars, sideVars>>)
    \/ (FeedbackResponse /\ UNCHANGED <<playVars, errVars, ipaVars, sideVars>>)
    \/ (handlePlayTTS /\ UNCHANGED <<playVars, errVars, ipaVars, sideVars>>)
    \/ (PlayIpaResponse /\ UNCHANGED <<playVars, errVars, ipaVars, sideVars>>)
    \/ (PlayGrammarResponse /\ UNCHANGED <<playVars, errVars, ipaVars, sideVars>>)
    \/ (PlayTtsResponse /\ UNCHANGED <<playVars, errVars, ipaVars, sideVars>>)
    \/ (PlayAudioEnded /\ UNCHANGED <<playVars, errVars, ipaVars, sideVars>>)

\* the pending step of the running handlePlayTTS: the response it awaits,
\* or the end of the audio it started
PlayProgress ==
    \/ PlayIpaResponse
    \/ PlayGrammarResponse
    \/ PlayTtsResponse
    \/ PlayAudioEnded

SpecTurnPlayback ==
    /\ Init /\ [][NextTurnPlayback]_vars
    /\ WF_vars(PlayProgress /\ UNCHANGED <<playVars, errVars, ipaVars, sideVars>>)

\* the practice playback tracker
NextPlayback ==
    \/ Tick
    \/ P0_handlePracticeTTS
    \/ P0_synthResponse
    \/ P0_onended
    \/ P0_setTargetText
    \/ P0_handleClearPractice
    \/ SC_handlePracticeTTS
    \/ SC_synthResponse
    \/ SC_onended
    \/ SC_setTargetText
    \/ SC_handleClearPractice

SpecPlayback == Init /\ [][NextPlayback]_vars

\* the error display
NextErrors ==
    \/ (handleOpError /\ UNCHANGED <<turnVars, playVars, ipaVars, sideVars>>)
    \/ (ErrorTimer /\ UNCHANGED <<turnVars, playVars, ipaVars, sideVars>>)
    \/ (clearPracticeError /\ UNCHANGED <<turnVars, playVars, ipaVars, sideVars>>)

SpecErrors == Init /\ [][NextErrors]_vars

\* the error display, with the timers of handleOpError firing: a pending
\* setTimeout callback is run by the event loop once its delay has passed
SpecErrorsLive ==
    SpecErrors /\ WF_vars(ErrorTimer /\ UNCHANGED <<turnVars, playVars, ipaVars, sideVars>>)

\* the debounced IPA lookup
NextIpa ==
    \/ IpaSetTargetText
    \/ IpaTimer
    \/ IpaTick

SpecIpa == Init /\ [][NextIpa]_vars

\* the pronunciation guide
NextGuide ==
    \/ Guide_handlePlay
    \/ Guide_ttsResponse
    \/ Guide_onended

SpecGuide == Init /\ [][NextGuide]_vars

\* the practice recording and its analysis
NextRecording ==
    \/ Rec_setSelection
    \/ Rec_setTargetText
    \/ Rec_micStart
    \/ Rec_started
    \/ Rec_data
    \/ Rec_micStop
    \/ Rec_analysisResponse
    \/ Rec_handleClearPractice

SpecRecording == Init /\ [][NextRecording]_vars

\* the selection tooltip and its lookups
NextTooltip ==
    \/ Tip_handleTextareaMouseUp
    \/ Tip_handleTextareaMouseDown
    \/ P0_tipTtsResponse
    \/ P0_tipLookupResponse
    \/ SC_tipLookupResponse
    \/ SC_tipTtsResponse

SpecTooltip == Init /\ [][NextTooltip]_vars

\* ------------------------------------------------------------ properties
\* the step delivers a client event of this kind
EventStep(kind) ==
    /\ Len(events') = Len(events) + 1
    /\ Last(events').kind = kind

\* the speaker a transcription event belongs to
RoleOf(kind) == IF kind = "inputTranscription" THEN "user" ELSE "agent"

Transcriptions == {"inputTranscription", "outputTranscription"}

\* the last turn is an open (non-final) turn of this role
OpenTail(role) ==
    turns # <<>> /\ Last(turns).role = role /\ ~Last(turns).isFinal

\* C1: a transcription fragment that arrives while the last turn has the
\* fragment's role and is non-final leaves the number of turns as it is and
\* appends its text to the text of the last turn; by induction the text is
\* the concatenation of the fragments in arrival order.
C1_SameRoleFragmentsConcatenate ==
    [][\A kind \in Transcriptions :
          (EventStep(kind) /\ OpenTail(RoleOf(kind)))
          => /\ Len(turns') = Len(turns)
             /\ Last(turns').text = Last(turns).text \o Last(events').text
             /\ \A i \in 1..(Len(turns) - 1) : turns'[i].text = turns[i].text
      ]_vars

\* two non-empty user fragments in a row have been merged into one turn
C1_Witness ==
    /\ Len(events) = 2
    /\ events[1].kind = "inputTranscription" /\ ~events[1].isFinal
    /\ events[2].kind = "inputTranscription" /\ ~events[2].isFinal
    /\ events[1].text = lo /\ events[2].text = Hel
    /\ Len(turns) = 1
    /\ turns[1].text = lo \o Hel

\* C2: a transcription fragment whose role differs from the role of the
\* non-final last turn makes that turn final, leaves isFinal of every other
\* turn as it is, and appends one turn of the new role.
C2_RoleSwitchFinalizesPrevious ==
    [][\A kind \in Transcriptions :
          (/\ EventStep(kind)
           /\ turns # <<>>
           /\ Last(turns).role \in {"user", "agent"}
           /\ Last(turns).role # RoleOf(kind)
           /\ ~Last(turns).isFinal)
          => /\ Len(turns') = Len(turns) + 1
             /\ turns'[Len(turns)].isFinal
             /\ \A i \in 1..(Len(turns) - 1) :
                    turns'[i].isFinal = turns[i].isFinal
             /\ Last(turns').role = RoleOf(kind)
      ]_vars

\* C3: every turn other than the last one is final.
C3_NonFinalOnlyAtTail ==
    \A i \in 1..(Len(turns) - 1) : turns[i].isFinal

\* C4: a turn that is final stays final under every event and every
\* annotation update.
C4_FinalIsMonotonic ==
    [][\A i \in 1..Len(turns) :
          turns[i].isFinal
          => /\ i <= Len(turns')
             /\ turns'[i].id = turns[i].id
             /\ turns'[i].isFinal
      ]_vars

\* a final turn has received all three annotations and a later turn exists
C4_Witness ==
    /\ Len(turns) >= 2
    /\ turns[1].isFinal
    /\ turns[1].pronunciationFeedback = "feedback"
    /\ turns[1].grammarFeedback = "feedback"
    /\ turns[1].ipa = "ipa"

BaseFields == {"id", "role", "text", "isFinal", "groundingChunks"}

\* C5: a final turn keeps its position, id, role, text (and every other
\* field that is not an annotation); its pronunciationFeedback changes only
\* for an id with a feedback request, its grammarFeedback and ipa only for
\* the id handlePlayTTS was called with.
C5_FinalTurnFrame ==
    [][\A i \in 1..Len(turns) :
          turns[i].isFinal
          => /\ i <= Len(turns')
             /\ \A k \in BaseFields : turns'[i][k] = turns[i][k]
             /\ turns'[i].pronunciationFeedback # turns[i].pronunciationFeedback
                => turns[i].id \in (fetchingFeedback \cup fetchingFeedback')
             /\ (\/ turns'[i].grammarFeedback # turns[i].grammarFeedback
                 \/ turns'[i].ipa # turns[i].ipa)
                => turns[i].id \in {ttsTurn.id, ttsTurn'.id}
      ]_vars

\* the second of three turns is final and annotated by handlePlayTTS while
\* its neighbours are not
C5_Witness ==
    /\ Len(turns) = 3
    /\ turns[2].isFinal
    /\ turns[2].ipa = "ipa"
    /\ turns[1].ipa = Undefined
    /\ turns[3].ipa = Undefined
    /\ turns[3].text # Empty

\* C6: a final fragment that arrives while the last turn has its role and
\* is non-final leaves one final turn holding the concatenated text; the
\* fragments (user, "Hel", false), (user, "lo", true) on an empty log give
\* exactly one final turn with text "Hello".
C6_FinalFragmentClosesTurn ==
    /\ [][\A kind \in Transcriptions :
             (/\ EventStep(kind)
              /\ OpenTail(RoleOf(kind))
              /\ Last(events').isFinal)
             => /\ Len(turns') = Len(turns)
                /\ Last(turns').isFinal
                /\ Last(turns').role = RoleOf(kind)
                /\ Last(turns').text = Last(turns).text \o Last(events').text
         ]_vars
    /\ [](events = <<Event("inputTranscription", Hel, FALSE, None),
                     Event("inputTranscription", lo, TRUE, None)>>
          => /\ Len(turns) = 1
             /\ turns[1].role = "user"
             /\ turns[1].isFinal
             /\ turns[1].text = Hello)

\* the example has run
C6_Witness ==
    /\ events = <<Event("inputTranscription", Hel, FALSE, None),
                  Event("inputTranscription", lo, TRUE, None)>>
    /\ Len(turns) = 1
    /\ turns[1].isFinal
    /\ turns[1].text = Hello

C8_EmptyFragmentIgnored ==
    [][\A kind \in Transcriptions :
          (EventStep(kind) /\ Last(events').text = Empty)
          => /\ Len(turns') = Len(turns)
             /\ \A i \in 1..Len(turns) :
                    /\ turns'[i].text = turns[i].text
                    /\ turns'[i].isFinal = turns[i].isFinal
      ]_vars

\* the step is a call of handlePracticeTTS: no text change, no clock tick,
\* no 'ended' handler and no speech response
NewlyEnded ==
    \E k \in 1..Len(sources) :
        sources[k].status # "ended" /\ sources'[k].status = "ended"

NewlyAnswered ==
    \E r \in 1..Len(synth) :
        synth[r].status = "pending" /\ synth'[r].status = "done"

ToggleStep ==
    /\ playVars' # playVars
    /\ targetText' = targetText
    /\ clock' = clock
    /\ ~NewlyEnded
    /\ ~NewlyAnswered

\* C9: while a buffer is held, nothing plays and no segment has run to the
\* end of the buffer, practicePausedAt is the summed clock time of the
\* segments paused so far.
C9_OffsetIsSumOfSegments ==
    (practiceAudioBuffer # 0 /\ ~isPracticePlaying /\ ~naturalEnd)
    => practicePausedAt = played

\* C10: handlePracticeTTS called while isPracticePlaying marks the pause as
\* intentional, stops the current segment, adds the clock time since
\* practiceStartTime to practicePausedAt, clears isPracticePlaying, and
\* starts no segment and issues no speech request.
C10_ToggleWhilePlayingPauses ==
    [][(ToggleStep /\ isPracticePlaying)
       => /\ isPausedIntent'
          /\ \A k \in 1..Len(sources) : sources'[k].status # "started"
          /\ practicePausedAt' = practicePausedAt + (clock - practiceStartTime)
          /\ ~isPracticePlaying'
          /\ Len(sources') = Len(sources)
          /\ Len(synth') = Len(synth)
      ]_vars

\* the step starts a new source node
StartsSegment == Len(sources') = Len(sources) + 1

\* the step issues a speech-synthesis request
IssuesSynth == Len(synth') = Len(synth) + 1

\* C11: handlePracticeTTS called while nothing is marked playing, a buffer
\* is held and 0 < practicePausedAt < duration starts one new segment of the
\* held buffer at practicePausedAt, makes it the current source, sets the
\* start reference from the audio clock (part_000: the clock; console: the
\* clock minus the offset, so that clock - start is the position), sets
\* isPracticePlaying and issues no speech request.
C11_ToggleWhilePausedResumes ==
    [][(/\ ToggleStep
        /\ ~isPracticePlaying
        /\ practiceAudioBuffer # 0
        /\ practicePausedAt > 0
        /\ practicePausedAt < Duration)
       => /\ StartsSegment
          /\ Last(sources').status = "started"
          /\ Last(sources').buf = practiceAudioBuffer
          /\ Last(sources').offset = practicePausedAt
          /\ Last(sources').began = clock
          /\ practiceSource' = Len(sources')
          /\ practiceStartTime' =
                 IF variant = "part_000" THEN clock ELSE clock - practicePausedAt
          /\ practicePausedAt' = practicePausedAt
          /\ isPracticePlaying'
          /\ ~IssuesSynth
      ]_vars

\* a second segment of the one buffer synthesized plays from a positive
\* offset and is the current source
C11_Witness ==
    /\ Len(synth) = 1
    /\ Len(sources) = 2
    /\ sources[2].status = "started"
    /\ sources[2].offset > 0
    /\ practiceSource = 2
    /\ isPracticePlaying

\* C12: no segment is ever started at an offset at or past the duration;
\* handlePracticeTTS called while nothing is marked playing and a buffer is
\* held with practicePausedAt >= duration resets practicePausedAt to 0, and
\* the segment it leads to starts at offset 0 (part_000 starts it in the
\* call; the console starts it when the speech request it issues returns).
C12_OffsetWrapsToZero ==
    [][/\ StartsSegment => Last(sources').offset < Duration
       /\ (StartsSegment /\ NewlyAnswered /\ variant = "console")
          => Last(sources').offset = 0
       /\ (/\ ToggleStep
           /\ ~isPracticePlaying
           /\ practiceAudioBuffer # 0
           /\ practicePausedAt >= Duration)
          => /\ practicePausedAt' = 0
             /\ IF variant = "part_000"
                THEN StartsSegment /\ Last(sources').offset = 0
                ELSE ~StartsSegment /\ IssuesSynth
      ]_vars

\* part_000: the first segment has run out and was paused at or past the
\* end before its 'ended' handler ran; the second segment of the same buffer
\* plays from offset 0
C12_Witness ==
    /\ variant = "part_000"
    /\ Len(synth) = 1
    /\ Len(sources) = 2
    /\ sources[1].status = "stopped"
    /\ played >= Duration
    /\ sources[2].status = "started"
    /\ sources[2].offset = 0
    /\ sources[2].began >= Duration
    /\ practicePausedAt = 0
    /\ isPausedIntent = FALSE
    /\ isPracticePlaying

\* the step runs the 'ended' handler of source k, which played to the end of
\* its buffer and on which stop() was never called
NaturalEndStep(k) ==
    /\ k \in 1..Len(sources)
    /\ Exhausted(sources[k])
    /\ sources'[k].status = "ended"

\* C13: the 'ended' handler of a segment that played to the end of the
\* buffer without being stopped sets practicePausedAt to 0 and clears
\* isPracticePlaying; a later handlePracticeTTS call that finds this state
\* and starts a segment starts it at offset 0.
C13_NaturalEndResets ==
    [][/\ \A k \in 1..MaxSources :
              NaturalEndStep(k)
              => practicePausedAt' = 0 /\ ~isPracticePlaying'
       /\ (ToggleStep /\ ~isPracticePlaying /\ practicePausedAt = 0
           /\ StartsSegment)
          => Last(sources').offset = 0
      ]_vars

\* C14: while a decoded buffer is held, practicePausedAt lies between 0 and
\* the duration of the buffer.
C14_OffsetWithinBuffer ==
    practiceAudioBuffer # 0
    => (practicePausedAt >= 0 /\ practicePausedAt <= Duration)

\* C15: while a decoded buffer is held, no call of handlePracticeTTS issues
\* a speech-synthesis request (the target text is unchanged across the
\* call).
C15_BufferReused ==
    [][(ToggleStep /\ practiceAudioBuffer # 0) => ~IssuesSynth]_vars

\* some source of srcs produces sound at clock time t
AnyAudible(srcs, t) ==
    \E k \in 1..Len(srcs) :
        srcs[k].status = "started" /\ t < srcs[k].began + Duration - srcs[k].offset

\* C16: a step that changes the target text (an edit or Clear) leaves no
\* segment playing, no buffer, practicePausedAt = 0 and isPracticePlaying
\* false.
C16_TextChangeDiscardsPlayback ==
    [][targetText' # targetText
       => /\ ~AnyAudible(sources', clock')
          /\ practiceAudioBuffer' = 0
          /\ practicePausedAt' = 0
          /\ ~isPracticePlaying'
      ]_vars

\* C17: at most one practice segment has been started and has neither been
\* stopped nor run out (so a segment is started only when every earlier one
\* has been stopped or has ended).
C17_SinglePlaybackSlot ==
    Cardinality({k \in 1..Len(sources) : Audible(sources[k])}) <= 1

\* what FeedbackResponse leaves when the request for turn id fails: the
\* catch and finally blocks, then the feedback effect
AfterFailedFeedback(id) ==
    P0_feedbackEffect(P0_feedbackResponse(turns, id, FALSE),
                      fetchingFeedback \ {id})

\* C18: when a pronunciation-feedback request in flight fails, the step
\* that handles the failure issues no new request for the same turn: the
\* turn is left without feedback and without a request in flight.
C18_NoRetryAfterFailure ==
    variant = "part_000"
    => \A id \in fetchingFeedback :
           id \notin AfterFailedFeedback(id).fetching

\* ts2 has the turns of ts1, in order, with the same role, text and isFinal
SameTranscript(ts1, ts2) ==
    /\ Len(ts2) = Len(ts1)
    /\ \A i \in 1..Len(ts1) :
           /\ ts2[i].id = ts1[i].id
           /\ ts2[i].role = ts1[i].role
           /\ ts2[i].text = ts1[i].text
           /\ ts2[i].isFinal = ts1[i].isFinal

\* the turn with this id carries value v in field f
FieldOf(ts, id, f, v) ==
    \A i \in 1..Len(ts) : ts[i].id = id => ts[i][f] = v

\* C19: a failed annotation request leaves its annotation undefined, not
\* the "Analyzing" placeholder, and the transcript as it was.  For the
\* pronunciation feedback: in every state, the failure of a request in
\* flight.  For handlePlayTTS: a failed IPA request ends the call with ipa
\* and grammarFeedback undefined; the grammar request never leaves the
\* placeholder, whether it fails or not; a call that ends at the speech
\* request leaves no placeholder; no step of the call changes the transcript.
C19_FailedAnnotationCleared ==
    /\ [](\A id \in fetchingFeedback :
              /\ FieldOf(AfterFailedFeedback(id).turns, id,
                         "pronunciationFeedback", Undefined)
              /\ SameTranscript(turns, AfterFailedFeedback(id).turns))
    /\ [][/\ events' = events => SameTranscript(turns, turns')
          /\ (ttsPc = "ipa" /\ ttsPc' = "idle")
             => /\ FieldOf(turns', ttsTurn.id, "ipa", Undefined)
                /\ FieldOf(turns', ttsTurn.id, "grammarFeedback", Undefined)
          /\ (ttsPc = "grammar" /\ ttsPc' # "grammar")
             => ~FieldOf(turns', ttsTurn.id, "grammarFeedback", "analyzing")
          /\ (ttsPc = "tts" /\ ttsPc' = "idle")
             => ~FieldOf(turns', ttsTurn.id, "grammarFeedback", "analyzing")
         ]_vars

\* the step is a call of handleOpError
OpErrorStep == errorTimers' = errorTimers + 1

\* the error shapes the quota category is stated for: a string or a message
\* containing "429" or "RESOURCE_EXHAUSTED", status "RESOURCE_EXHAUSTED",
\* error.code 429 or error.status "RESOURCE_EXHAUSTED"
StatedQuotaShape(e) ==
    \/ /\ e.kind = "string"
       /\ \E i \in 1..Len(e.text) : e.text[i] \in {"429", "RESOURCE_EXHAUSTED"}
    \/ /\ e.kind = "object"
       /\ \/ /\ e.message # None
             /\ \E i \in 1..Len(e.message[1]) :
                    e.message[1][i] \in {"429", "RESOURCE_EXHAUSTED"}
          \/ e.status = <<"RESOURCE_EXHAUSTED">>
          \/ /\ e.error # None
             /\ \/ e.error[1].code = 429
                \/ e.error[1].status = <<"RESOURCE_EXHAUSTED">>

\* the further shape StreamingConsole.tsx matches: error.message containing
\* "RESOURCE_EXHAUSTED"
InnerMessageShape(e) ==
    /\ e.kind = "object"
    /\ e.error # None
    /\ e.error[1].message # None
    /\ \E i \in 1..Len(e.error[1].message[1]) :
           e.error[1].message[1][i] = "RESOURCE_EXHAUSTED"

\* C20 as stated: handleOpError shows the quota message exactly for the
\* stated shapes and the generic message for every other error, and
\* practiceError is non-null after the call.
C20_QuotaIffStatedShapes ==
    [][OpErrorStep
       => /\ (practiceError' = QuotaMessage) <=> StatedQuotaShape(lastError')
          /\ ~StatedQuotaShape(lastError') => practiceError' = GenericMessage
          /\ practiceError' # NoMessage
      ]_vars

\* C20 amended: as stated, with the quota shapes of StreamingConsole.tsx
\* extended by error.message containing "RESOURCE_EXHAUSTED".
C20_QuotaIffMatchedShapes ==
    [][OpErrorStep
       => LET quota == \/ StatedQuotaShape(lastError')
                       \/ (variant = "console" /\ InnerMessageShape(lastError'))
          IN /\ (practiceError' = QuotaMessage) <=> quota
             /\ ~quota => practiceError' = GenericMessage
             /\ practiceError' # NoMessage
      ]_vars

\* the console shows the quota message for an error that only carries
\* "RESOURCE_EXHAUSTED" in error.message
C20_Witness ==
    /\ variant = "console"
    /\ practiceError = QuotaMessage
    /\ lastError.kind = "object"
    /\ InnerMessageShape(lastError)
    /\ ~StatedQuotaShape(lastError)

\* C21: the error message is transient: while a message is shown a timer of
\* handleOpError is pending, and with the timers firing (no user action being
\* required) every state that shows a message is followed by a state where
\* practiceError is null.
C21_ErrorMessageTransient ==
    /\ [](practiceError # NoMessage => errorTimers > 0)
    /\ (practiceError # NoMessage) ~> (practiceError = NoMessage)

\* a quota error has been reported, and its message is gone with every timer
\* fired
C21_Witness ==
    /\ lastError.kind # "null"
    /\ StatedQuotaShape(lastError)
    /\ errorTimers = 0
    /\ practiceError = NoMessage

\* the step calls fetchIPA
IpaLookupStep == ipaLookups' = ipaLookups + 1

\* C22: fetchIPA is called only when targetText has stayed unchanged for the
\* full wait, with the current text as its argument, and at most once per
\* text change; a pending call always carries the current text and is due no
\* earlier than one wait after the latest change, so of a burst of changes
\* less than one wait apart only the last one can lead to a call.
C22_DebounceSuppressesLookups ==
    /\ [][IpaLookupStep
          => /\ now - textChangedAt >= Wait
             /\ lastIpaText' = targetText
             /\ ipaLookups = 0
         ]_vars
    /\ [](debouncedFetchIPA # None
          => /\ debouncedFetchIPA[1].text = targetText
             /\ debouncedFetchIPA[1].due = textChangedAt + Wait
             /\ ipaLookups = 0)

\* the text was last changed at tick 2, to a non-blank text; fetchIPA has
\* been called once since, with that text, and no call is pending
C22_Witness ==
    /\ targetText = 2
    /\ textChangedAt = 2
    /\ ipaLookups = 1
    /\ lastIpaText = 2
    /\ debouncedFetchIPA = None

\* the step runs the 'ended' handler of source k
OnendedStep(k) ==
    /\ k \in 1..Len(sources)
    /\ sources[k].status # "ended"
    /\ sources'[k].status = "ended"

\* C23: in StreamingConsole.tsx the 'ended' handler of a segment stopped by a
\* manual pause made more than the tolerance before the end of the buffer
\* leaves practicePausedAt as it is; an 'ended' handler that runs when the
\* clock is within the tolerance of, or past, practiceStartTime + duration
\* sets practicePausedAt to 0 and clears isPracticePlaying.
C23_ToleranceSeparatesPauseFromEnd ==
    [][\A k \in 1..MaxSources :
          (variant = "console" /\ OnendedStep(k))
          => /\ sources[k].pause = "early"
                => practicePausedAt' = practicePausedAt
             /\ clock >= practiceStartTime + Duration - Tolerance
                => (practicePausedAt' = 0 /\ ~isPracticePlaying')
      ]_vars

\* source k was stopped by a manual pause, and a segment started since is
\* the current source and is marked playing
ResumedAfterPauseOf(k) ==
    /\ k \in 1..Len(sources)
    /\ sources[k].pause # "no"
    /\ practiceSource \notin {0, k}
    /\ sources[practiceSource].status = "started"
    /\ isPracticePlaying

\* C24: in part_000 the 'ended' handler of a segment stopped by a manual
\* pause, run after a resume has started the next segment, leaves
\* isPracticePlaying true, practicePausedAt as it is and practiceSource
\* pointing to the new segment.
C24_LateEndedAfterResumeIgnored ==
    [][\A k \in 1..MaxSources :
          (variant = "part_000" /\ OnendedStep(k) /\ ResumedAfterPauseOf(k))
          => /\ isPracticePlaying'
             /\ practicePausedAt' = practicePausedAt
             /\ practiceSource' = practiceSource
      ]_vars

\* the step handles the response of speech request r
SynthResponseStep(r) ==
    /\ r \in 1..Len(synth)
    /\ synth[r].status = "pending"
    /\ synth'[r].status = "done"

\* C25: a held practice buffer was synthesized from the current target text,
\* and the response of a speech request issued for another text than the
\* current one (the text was changed or cleared since) stores no buffer and
\* starts no segment.
C25_BufferOfCurrentText ==
    /\ [](practiceAudioBuffer # 0 => practiceAudioBuffer = targetText)
    /\ [][\A r \in 1..MaxSynth :
             (SynthResponseStep(r) /\ synth[r].text # targetText)
             => /\ practiceAudioBuffer' = practiceAudioBuffer
                /\ ~StartsSegment
         ]_vars

\* a call of handlePracticeTTS is suspended at its speech request
SynthPending == \E r \in 1..Len(synth) : synth[r].status = "pending"

\* C26: while no call of handlePracticeTTS is suspended, isPracticePlaying is
\* false when no segment is started, and no segment produces sound while
\* isPracticePlaying is false.
C26_FlagAgreesWithAudio ==
    ~SynthPending
    => /\ isPracticePlaying
          => \E k \in 1..Len(sources) : sources[k].status = "started"
       /\ ~isPracticePlaying
          => \A k \in 1..Len(sources) : ~Audible(sources[k])

\* ts2 is ts1 with the last turn made final and nothing else changed
LastMadeFinal(ts1, ts2) ==
    /\ Len(ts2) = Len(ts1)
    /\ \A i \in 1..(Len(ts1) - 1) : ts2[i] = ts1[i]
    /\ ts1 # <<>> => Last(ts2) = [Last(ts1) EXCEPT !.isFinal = TRUE]

AnnotationFields == {"pronunciationFeedback", "grammarFeedback", "ipa"}

\* C27: handleTurnComplete leaves every log the program reaches as it is but
\* for isFinal of the last turn, which is true afterwards; an empty log or a
\* log whose last turn is final is left as it is.  The step that delivers a
\* turncomplete event (the handler and the feedback effect that follows the
\* store update) adds no turn, changes no text, changes isFinal of the last
\* turn only, and changes no other field but pronunciationFeedback of the
\* turn it has made final.
C27_TurnCompleteFrame ==
    /\ [](/\ LastMadeFinal(turns, P0_handleTurnComplete(turns))
          /\ (turns = <<>> \/ Last(turns).isFinal)
             => P0_handleTurnComplete(turns) = turns)
    /\ [][EventStep("turncomplete")
          => /\ Len(turns') = Len(turns)
             /\ \A i \in 1..(Len(turns) - 1) : turns'[i] = turns[i]
             /\ turns # <<>>
                => /\ Last(turns').isFinal
                   /\ \A k \in BaseFields \ {"isFinal"} :
                          Last(turns')[k] = Last(turns)[k]
                   /\ \A k \in AnnotationFields :
                          Last(turns')[k] # Last(turns)[k]
                          => /\ k = "pronunciationFeedback"
                             /\ ~Last(turns).isFinal
             /\ (turns = <<>> \/ Last(turns).isFinal) => turns' = turns
         ]_vars

\* a turncomplete event has made the second turn final and left the open
\* first turn as it was
C27_Witness ==
    /\ Len(events) = 3
    /\ events[3].kind = "turncomplete"
    /\ Len(turns) = 2
    /\ ~turns[1].isFinal
    /\ turns[2].isFinal
    /\ turns[2].role = "user"
    /\ turns[2].pronunciationFeedback = "analyzing"

\* the turn of ts with this id is a final user turn with non-blank text
FinalUserTurn(ts, id) ==
    \E i \in 1..Len(ts) :
        /\ ts[i].id = id
        /\ ts[i].role = "user"
        /\ ts[i].isFinal
        /\ ~IsBlank(ts[i].text)

\* C28: a pronunciation-feedback request is issued only for a final user
\* turn with non-blank text that carried no pronunciationFeedback: every turn
\* with a request in flight is such a turn and shows the placeholder the
\* request has written, and a turn whose request is issued in a step carried
\* no feedback before the step.
C28_FeedbackOnlyForFinalUserTurns ==
    /\ [](\A id \in fetchingFeedback :
              /\ FinalUserTurn(turns, id)
              /\ FieldOf(turns, id, "pronunciationFeedback", "analyzing"))
    /\ [][\A id \in fetchingFeedback' \ fetchingFeedback :
              /\ FinalUserTurn(turns', id)
              /\ FieldOf(turns, id, "pronunciationFeedback", Undefined)
         ]_vars

\* a request is in flight for the first turn only; the log also holds a
\* final agent turn and an open user turn, both with text and without
\* feedback
C28_Witness ==
    /\ Len(turns) = 3
    /\ fetchingFeedback = {turns[1].id}
    /\ turns[2].role = "agent" /\ turns[2].isFinal /\ ~IsBlank(turns[2].text)
    /\ turns[3].role = "user" /\ ~turns[3].isFinal /\ ~IsBlank(turns[3].text)
    /\ turns[2].pronunciationFeedback = Undefined
    /\ turns[3].pronunciationFeedback = Undefined

\* C29: at most one pronunciation-feedback request per turn is in flight,
\* and the id of a turn is in fetchingFeedbackRef exactly while its request
\* is in flight, whatever events re-run the feedback effect.
C29_OneRequestPerTurnInFlight ==
    \A id \in DOMAIN feedbackInFlight :
        /\ feedbackInFlight[id] <= 1
        /\ feedbackInFlight[id] = 1 <=> id \in fetchingFeedback

\* requests for two turns are in flight and a further event has re-run the
\* effect
C29_Witness ==
    /\ Len(turns) >= 2
    /\ feedbackInFlight[turns[1].id] = 1
    /\ feedbackInFlight[turns[2].id] = 1
    /\ Len(events) = 3
    /\ turns[1].pronunciationFeedback = "analyzing"
    /\ turns[2].pronunciationFeedback = "analyzing"

\* C30: in part_000 every final user turn with non-blank text has had a
\* pronunciation-feedback request issued for it: its request is in flight,
\* or one has completed and left its feedback.  This holds in every state, so
\* the request is issued in the step that makes the turn final, also while
\* requests for earlier turns are in flight.
C30_EveryFinalUserTurnRequested ==
    variant = "part_000"
    => \A i \in 1..Len(turns) :
           (turns[i].role = "user" /\ turns[i].isFinal /\ ~IsBlank(turns[i].text))
           => \/ /\ feedbackInFlight[turns[i].id] = 1
                 /\ turns[i].pronunciationFeedback = "analyzing"
              \/ /\ feedbackInFlight[turns[i].id] = 0
                 /\ turns[i].pronunciationFeedback = "feedback"

\* three user turns have become final one after the other with no request
\* completed when the next became final, then the first request completed
C30_Witness ==
    /\ variant = "part_000"
    /\ Len(turns) = 3
    /\ \A i \in 1..3 :
           turns[i].role = "user" /\ turns[i].isFinal /\ ~IsBlank(turns[i].text)
    /\ turns[1].pronunciationFeedback = "feedback"
    /\ feedbackInFlight[turns[2].id] = 1
    /\ feedbackInFlight[turns[3].id] = 1


\* --------------------------------------------------- turn playback lock
\* the step takes a handlePlayTTS call past its guard: a pipeline starts
PlayAcceptedStep ==
    \/ plays' # plays
    \/ ttsTurn' # NoTurn /\ ttsTurn' # ttsTurn
    \/ ttsTurn # NoTurn /\ ttsTurn' # NoTurn /\ playingTurnId' # playingTurnId

\* C31: a pipeline of handlePlayTTS is in progress only while playingTurnId
\* is set, and while playingTurnId is set no step starts a pipeline: a
\* handlePlayTTS call made then, for the playing turn or for another one,
\* changes nothing, so at most one pipeline is in progress at a time
C31_PlaybackExclusive ==
    [][/\ ttsPc' # "idle" => playingTurnId' # 0
       /\ PlayAcceptedStep => playingTurnId = 0 /\ ttsPc = "idle"
       /\ playingTurnId # 0 /\ playingTurnId' # 0 =>
              playingTurnId' = playingTurnId /\ ttsTurn'.id = ttsTurn.id]_vars

\* a pipeline is in progress while another turn shows a play button
C31_Witness ==
    /\ playingTurnId # 0
    /\ ttsPc \in {"ipa", "grammar", "tts", "audio"}
    /\ \E i \in 1..Len(turns) :
        HasPlayButton(turns[i]) /\ turns[i].id # playingTurnId


\* C32: the lock of the turn playback is always released: whenever
\* playingTurnId is set, it is null again later, whichever way the pipeline
\* ends (audio played to its end, response without audio, failure of a
\* request or of the decoding), given that requests complete and that
\* started audio ends
C32_LockReleased ==
    [](playingTurnId # 0 => <>(playingTurnId = 0 /\ ttsPc = "idle"))

\* a handlePlayTTS call was accepted and its pipeline is over
C32_Witness ==
    plays > 0 /\ playingTurnId = 0 /\ ttsPc = "idle" /\ ttsTurn = NoTurn


\* --------------------------------------------------- pronunciation guide
\* C33: a click on an example while playingWord is set issues no request
\* and leaves playingWord as it is, and playingWord is null again after
\* every outcome of an accepted click (audio ended, response without audio
\* data, error): it is set exactly while a handlePlay is in progress
C33_GuideClickExclusive ==
    [][/\ playingWord # NoWord =>
              /\ guideRequests' = guideRequests
              /\ playingWord' \in {playingWord, NoWord}
       /\ guidePc' = "idle" <=> playingWord' = NoWord
       /\ guideLast' # guideLast /\ guideLast' # "none" =>
              playingWord' = NoWord]_vars

\* each outcome of an accepted click has happened with playingWord null
C33_Witness ==
    /\ guideRequests = MaxGuidePlays
    /\ guideLast = "ended"
    /\ playingWord = NoWord


C35_NoStaleFeedback ==
    practiceFeedback # None => ~practiceFeedback[1].stale


\* ------------------------------------------------------ selection tooltip
\* the step resumes a suspended handleTextareaMouseUp with a response
TipResponseStep ==
    tipPending' # tipPending /\ Len(tipPending') <= Len(tipPending)

\* C36: a response (success or error) for the selection of word W changes
\* the tooltip only while the tooltip shows W: it does not re-open a
\* dismissed tooltip and does not overwrite what is shown for another word
C36_LateResultRightTooltip ==
    [][TipResponseStep /\ selectedWordTooltip' # selectedWordTooltip =>
           /\ selectedWordTooltip # None
           /\ selectedWordTooltip[1].word = tipAnswered'
           /\ selectedWordTooltip' # None]_vars

====
